---- MODULE Spec2Model ----
(***************************************************************************)
(* The X11 event loop of glazier: the window registry, the per-window      *)
(* handler guard, the idle queue and its wake pipe, the timer queue, the   *)
(* invalid region and the two-phase destruction of windows.                *)
(*                                                                         *)
(*   src/src/backend/x11/application.rs   AppInner, Application            *)
(*   src/src/backend/x11/window.rs        Window, WindowHandle, IdleHandle *)
(*                                                                         *)
(* One loop thread runs run_inner.  A call into the client handler is a    *)
(* step into one of the "in_*" control points; while the loop thread is    *)
(* there the client's code runs and may call back into WindowHandle,       *)
(* IdleHandle and Application; the matching Return* action is the return   *)
(* of the handler method.  Other threads own only IdleHandles.             *)
(***************************************************************************)
EXTENDS Integers, Sequences, FiniteSets, TLC

\* ---------------------------------------------------------------- bounds
NumWin == 2
MaxEvents == 2
MaxTime == 2
MaxIdle == 2
MaxTimers == 3
MaxPipe == 2
WinW == 2
WinH == 1

\* The refresh interval of run_inner (one time unit of the model)
IdleInterval == 1

\* ------------------------------------------------------------- constants
\* window ids; AppWin is AppInner::window_id, the bookkeeping window
Win == 1..NumWin
AppWin == 0
NoWin == 0 - 1
None == 0 - 1

VARIABLES
    \* application.rs: State and the quit finalization
    windows, quitting, finalized, stateLock,
    \* window.rs: the fields of Window
    destroyed, handlerLock, depth, invalid, timer_queue, idle_queue,
    \* token counters and the idle pipe
    nextToken, nextIdle, pipe, thrWake,
    \* the X server: events towards the loop, destroy requests in flight,
    \* the last request the program sent
    xevents, xPending, lastReq,
    \* the loop thread: control point and the locals of run_inner,
    \* run_timers, run_idle and render
    pc, cur, call, todo, batch, needs_redraw, now, next_timeout,
    last_idle_time, clock,
    \* what the last operations did (read by the properties only)
    reentry, evOutcome, fired, swapped, dueAtCall, paintArg, invLog, undrained,
    cycleMax,
    \* text input: the fields of Window, the locals of
    \* reset_text_fields_if_needed, xkb_state, the handler's input lock
    active_text_field, next_text_field, need_to_reset_compose, next_field,
    reset_compose, composing, inputLock, nextField, ret,
    \* the client made a text-field call between acquire_input_lock and
    \* release_input_lock in the event being handled (read by the properties only)
    lockCall,
    \* the PointerEvent handed to pointer_down, pointer_up or wheel
    pointer_ev,
    \* the web backend: WindowState::idle_queue and area, the pending
    \* process_idle_queue animation-frame callbacks, whether WindowState is
    \* alive, what the browser's thread is running, the items being
    \* processed, the last WheelEvent and the wheel delta handed to the handler
    web_queue, web_area, web_raf, web_alive, web_pc, web_batch, web_event,
    web_wheel

appVars == <<windows, quitting, finalized, stateLock>>
winVars == <<destroyed, handlerLock, depth, invalid, timer_queue, idle_queue>>
tokVars == <<nextToken, nextIdle, pipe, thrWake>>
xVars == <<xevents, xPending, lastReq>>
loopVars == <<pc, cur, call, todo, batch, needs_redraw, now, next_timeout,
              last_idle_time, clock>>
obsVars == <<reentry, evOutcome, fired, swapped, dueAtCall, paintArg, invLog,
             undrained, cycleMax>>
\* The text input of a window (Window::active_text_field, next_text_field,
\* need_to_reset_compose), the locals next_field and need_to_reset_compose of
\* reset_text_fields_if_needed, the compose state of xkb_state, the field
\* whose input lock the handler has handed out, the TextFieldToken counter
\* and what the last WindowHandle call returned; the last PointerEvent.
inputVars == <<active_text_field, next_text_field, need_to_reset_compose,
              next_field, reset_compose, composing, inputLock, nextField, ret,
              lockCall, pointer_ev>>
webVars == <<web_queue, web_area, web_raf, web_alive, web_pc, web_batch,
            web_event, web_wheel>>
vars == <<appVars, winVars, tokVars, xVars, loopVars, obsVars, inputVars, webVars>>

\* ----------------------------------------------------------- the gateway
\* The handler code of window cur is running.
InHandler ==
    pc \in {"in_event", "in_destroy", "in_timer", "in_idle",
            "in_prepare_paint", "in_paint"}

\* From acquire_input_lock(field) until release_input_lock(field) has returned.
InLock == pc \in {"in_lock_prev", "in_lock_next", "in_lock_input", "in_lock_focus"}

InTextHandler == pc \in {"in_key_down", "in_key_up", "in_lost_focus"} \/ InLock

\* Window::with_handler_and_dont_check_the_other_borrows: self.handler.write()
\* on a std::sync::RwLock.  A free lock is taken.  A lock the calling thread
\* already holds is never reported as Err (Err is poisoning only): write()
\* blocks for ever or panics, as the standard library documents.
with_handler_unguarded(w) ==
    {"entered"}

with_handler(w) ==
    IF handlerLock[w] THEN {"deadlock", "panic"} ELSE {"entered"}

\* The guard is dropped when the closure returns.
release_guard(w) ==
    [handlerLock EXCEPT ![w] = FALSE]

NoReq == [op |-> "none", id |-> NoWin, flag |-> FALSE]

\* No pointer method has been called yet.
NoPointer == [button |-> "None", wheel_delta |-> <<0, 0>>]

\* No wheel delta (web backend): nothing is handed to the handler.
NoWheel == <<>>

\* No WindowHandle method has returned yet.
NoRet == [op |-> "none", val |-> "()", token |-> 0]

Init ==
    /\ windows = Win
    /\ quitting = FALSE
    /\ finalized = 0
    /\ stateLock = "none"
    /\ destroyed = [w \in Win |-> FALSE]
    /\ handlerLock = [w \in Win |-> FALSE]
    /\ depth = [w \in Win |-> 0]
    /\ invalid = [w \in Win |-> {}]
    /\ timer_queue = [w \in Win |-> {}]
    /\ idle_queue = [w \in Win |-> <<>>]
    /\ nextToken = 1
    /\ nextIdle = 1
    /\ pipe = 0
    /\ thrWake = FALSE
    /\ xevents = <<>>
    /\ xPending = {}
    /\ lastReq = NoReq
    /\ pc = "top"
    /\ cur = NoWin
    /\ call = "none"
    /\ todo = {}
    /\ batch = <<>>
    /\ needs_redraw = FALSE
    /\ now = 0
    /\ next_timeout = None
    /\ last_idle_time = 0
    /\ clock = 0
    /\ reentry = "none"
    /\ evOutcome = "none"
    /\ fired = <<>>
    /\ swapped = <<>>
    /\ dueAtCall = {}
    /\ paintArg = {}
    /\ invLog = [w \in Win |-> {}]
    /\ undrained = FALSE
    /\ cycleMax = None
    /\ active_text_field = [w \in Win |-> None]
    /\ next_text_field = [w \in Win |-> None]
    /\ need_to_reset_compose = [w \in Win |-> FALSE]
    /\ next_field = None
    /\ reset_compose = FALSE
    /\ composing = FALSE
    /\ inputLock = <<>>
    /\ nextField = 1
    /\ ret = NoRet
    /\ lockCall = FALSE
    /\ pointer_ev = NoPointer
    /\ web_queue = <<>>
    /\ web_area = <<WinW, WinH>>
    /\ web_raf = 0
    /\ web_alive = TRUE
    /\ web_pc = "idle"
    /\ web_batch = <<>>
    /\ web_event = [delta_mode |-> 0, dx |-> 0, dy |-> 0]
    /\ web_wheel = NoWheel

\* ------------------------------------------------------ window operations
\* What WindowHandle lets the client call; each is forwarded to Window.
\* show, set_title and bring_to_front_and_focus test the destroyed flag;
\* set_position, set_size, resizable, set_cursor and get_position do not.
WinOps ==
    {"show", "set_title", "bring_to_front_and_focus", "set_position",
     "set_size", "resizable", "set_cursor", "get_position"}

ChecksDestroyed(op) ==
    op \in {"show", "set_title", "bring_to_front_and_focus"}

\* Whether the operation sends its X request for window w.  set_cursor
\* returns early when the cursor could not be loaded.
IssuesRequest(op, w, cursorLoaded) ==
    /\ ChecksDestroyed(op) => ~destroyed[w]
    /\ op = "set_cursor" => cursorLoaded

WindowOp(op, w) ==
    /\ InHandler
    /\ \E cursorLoaded \in BOOLEAN :
         IF IssuesRequest(op, w, cursorLoaded)
         THEN lastReq' = [op |-> op, id |-> w, flag |-> destroyed[w]]
         ELSE lastReq' = lastReq
    /\ UNCHANGED <<xevents, xPending>>
    /\ UNCHANGED <<appVars, winVars, tokVars, loopVars, obsVars>>
    /\ UNCHANGED <<inputVars, webVars>>

\* A mis-translation: destroy sends destroy_window whatever the flag says.
DestroyAll_unguarded(S) ==
    /\ destroyed' = [w \in Win |-> destroyed[w] \/ w \in S]
    /\ xPending' = xPending \cup S
    /\ IF S = {}
       THEN lastReq' = lastReq
       ELSE \E w \in S :
              lastReq' = [op |-> "destroy_window", id |-> w, flag |-> FALSE]

\* Window::destroy on every window of S: the flag is set and destroy_window
\* is sent, for the windows whose flag was clear.
DestroyAll(S) ==
    LET fresh == {w \in S : ~destroyed[w]} IN
    /\ destroyed' = [w \in Win |-> destroyed[w] \/ w \in S]
    /\ xPending' = xPending \cup fresh
    /\ IF fresh = {}
       THEN lastReq' = lastReq
       ELSE \E w \in fresh :
              lastReq' = [op |-> "destroy_window", id |-> w, flag |-> FALSE]

Close_OnePhase(w) ==
    /\ InHandler
    /\ DestroyAll({w})
    /\ windows' = windows \ {w}
    /\ UNCHANGED <<xevents, handlerLock, depth, invalid, timer_queue, idle_queue>>
    /\ UNCHANGED <<quitting, finalized, stateLock, tokVars, loopVars, obsVars>>
    /\ UNCHANGED <<inputVars, webVars>>

\* WindowHandle::close -> Window::close -> Window::destroy
Close(w) ==
    /\ InHandler
    /\ DestroyAll({w})
    /\ UNCHANGED <<xevents, handlerLock, depth, invalid, timer_queue, idle_queue>>
    /\ UNCHANGED <<appVars, tokVars, loopVars, obsVars>>
    /\ UNCHANGED <<inputVars, webVars>>

\* AppInner::finalize_quit: destroy the bookkeeping window, close the pipe.
finalize_quit ==
    /\ finalized' = finalized + 1
    /\ xPending' = xPending \cup {AppWin}
    /\ lastReq' = [op |-> "destroy_window", id |-> AppWin, flag |-> FALSE]

\* The client's code is running on the loop thread: in a handler method (of
\* a pointer, destroy, timer, idle or paint call, or of a key or focus call),
\* or in main before Application::run.
ClientRuns == InHandler \/ InTextHandler \/ pc = "start"

\* A mis-translation: quit does not look at the flag it sets.
is_quitting_unchecked == FALSE

\* `if !state.quitting` in Application::quit.
is_quitting == quitting

\* Application::quit, called by the client.  It takes
\* the state lock for writing: blocked for ever (or a panic) when the loop
\* thread holds that lock around the handler call.
Quit ==
    /\ ClientRuns
    /\ IF stateLock # "none"
       THEN /\ \E o \in {"deadlock", "panic"} : pc' = o
            /\ UNCHANGED <<cur, call, todo, batch, needs_redraw, now,
                           next_timeout, last_idle_time, clock>>
            /\ UNCHANGED <<appVars, winVars, xVars>>
       ELSE /\ UNCHANGED loopVars
            /\ UNCHANGED <<windows, stateLock>>
            /\ IF is_quitting
               THEN UNCHANGED <<quitting, finalized, destroyed, xPending, lastReq>>
               ELSE /\ quitting' = TRUE
                    /\ IF windows = {}
                       THEN finalize_quit /\ UNCHANGED destroyed
                       ELSE DestroyAll(windows) /\ UNCHANGED finalized
            /\ UNCHANGED <<xevents, handlerLock, depth, invalid, timer_queue,
                           idle_queue>>
    /\ UNCHANGED <<tokVars, obsVars>>
    /\ UNCHANGED <<inputVars, webVars>>

\* The handler of window cur makes the program enter with_handler of the
\* same window again while its own activation is in progress.
Reenter ==
    /\ InHandler
    /\ \E o \in with_handler(cur) :
         /\ reentry' = o
         /\ IF o = "entered"
            THEN /\ depth' = [depth EXCEPT ![cur] = @ + 1]
                 /\ pc' = pc
            ELSE /\ depth' = depth
                 /\ pc' = o
    /\ UNCHANGED <<cur, call, todo, batch, needs_redraw, now, next_timeout,
                   last_idle_time, clock>>
    /\ UNCHANGED <<destroyed, handlerLock, invalid, timer_queue, idle_queue>>
    /\ UNCHANGED <<appVars, tokVars, xVars, evOutcome, fired, swapped, dueAtCall, undrained, cycleMax, paintArg, invLog>>
    /\ UNCHANGED <<inputVars, webVars>>

\* ------------------------------------------------------------ the X server
\* The loop thread has left run_inner or will never go on.
Stopped == {"exited", "deadlock", "panic", "abort_poll", "abort_idle_pipe"}

NativeKinds == {"ButtonPress"}

\* The XInput button events, which carry a button code and the modifiers.
ButtonKinds == {"XinputButtonPress", "XinputButtonRelease"}

\* The events whose arms of handle_event borrow the state for xkb_state.
TextKinds == {"KeyPress", "KeyRelease", "FocusOut"}

\* The events that change the invalid region with no request of the client.
PaintKinds == {"ConfigureNotify", "Expose"}

\* The XInput touch events of a contact.
TouchKinds == {"XinputTouchBegin", "XinputTouchUpdate", "XinputTouchEnd"}

\* An input event for window w reaches the connection.
XEnqueue(type, w) ==
    /\ pc \notin Stopped
    /\ Len(xevents) < MaxEvents
    /\ xevents' = Append(xevents, [type |-> type, id |-> w])
    /\ UNCHANGED <<xPending, lastReq>>
    /\ UNCHANGED <<appVars, winVars, tokVars, loopVars, obsVars>>
    /\ UNCHANGED <<inputVars, webVars>>

\* The server reports a failed request: an X error event, which belongs to
\* no window.
XError ==
    /\ pc \notin Stopped
    /\ Len(xevents) < MaxEvents
    /\ xevents' = Append(xevents, [type |-> "Error", id |-> NoWin])
    /\ UNCHANGED <<xPending, lastReq>>
    /\ UNCHANGED <<appVars, winVars, tokVars, loopVars, obsVars>>
    /\ UNCHANGED <<inputVars, webVars>>

\* The server carries out a destroy_window request and confirms it.
XConfirmDestroy(w) ==
    /\ w \in xPending
    /\ xPending' = xPending \ {w}
    /\ xevents' = Append(xevents, [type |-> "DestroyNotify", id |-> w])
    /\ UNCHANGED lastReq
    /\ UNCHANGED <<appVars, winVars, tokVars, loopVars, obsVars>>
    /\ UNCHANGED <<inputVars, webVars>>

\* ---------------------------------------------------------- the event loop
Min(S) == CHOOSE x \in S : \A y \in S : x <= y

\* Window::next_timeout over the registered windows: the earliest deadline.
Deadlines == {t.deadline : t \in UNION {timer_queue[w] : w \in windows}}
\* A mis-translation: the loop never learns of a deadline.
NextTimeout_never == None

NextTimeout == IF Deadlines = {} THEN None ELSE Min(Deadlines)

\* state.windows.values(): the windows a timer pass or an idle pass visits.
values_stale == Win

values == windows

\* What ends poll_with_timeout when no X event is buffered: an X event, the
\* timer deadline, or the idle tick once the wake pipe is readable
\* (honor_idle_timeout starts false).
PollReady_honor_idle ==
    \/ xevents # <<>>
    \/ next_timeout # None /\ clock >= next_timeout
    \/ clock >= last_idle_time + IdleInterval

\* A mis-translation: the poll does not watch the idle pipe.
PollReady_deaf ==
    \/ xevents # <<>>
    \/ next_timeout # None /\ clock >= next_timeout

PollReady ==
    \/ xevents # <<>>
    \/ next_timeout # None /\ clock >= next_timeout
    \/ pipe > 0 /\ clock >= last_idle_time + IdleInterval

\* run_inner, top of the loop: the next timer deadline is computed; a
\* buffered event starts the drain, otherwise the thread blocks in poll.
LoopTop ==
    /\ pc = "top"
    /\ next_timeout' = NextTimeout
    /\ pc' = IF xevents # <<>> THEN "drain" ELSE "wait"
    /\ undrained' = FALSE
    /\ UNCHANGED <<cur, call, todo, batch, needs_redraw, now, last_idle_time, clock>>
    /\ UNCHANGED <<appVars, winVars, tokVars, xVars>>
    /\ UNCHANGED <<reentry, evOutcome, fired, swapped, dueAtCall, paintArg, invLog,
                   cycleMax>>
    /\ UNCHANGED <<inputVars, webVars>>

\* poll_with_timeout returns; the event it woke for is left to the next
\* iteration (event is still None at the while loop).
PollReturn_ThenDrain ==
    /\ pc = "wait"
    /\ PollReady
    /\ pc' = "drain"
    /\ UNCHANGED <<cur, call, todo, batch, needs_redraw, now, next_timeout,
                   last_idle_time, clock>>
    /\ UNCHANGED <<appVars, winVars, tokVars, xVars, obsVars>>
    /\ UNCHANGED <<inputVars, webVars>>

PollReturn ==
    /\ pc = "wait"
    /\ PollReady
    /\ now' = clock
    /\ pc' = "timer_check"
    /\ undrained' = (xevents # <<>>)
    /\ UNCHANGED <<cur, call, todo, batch, needs_redraw, next_timeout,
                   last_idle_time, clock>>
    /\ UNCHANGED <<appVars, winVars, tokVars, xVars>>
    /\ UNCHANGED <<reentry, evOutcome, fired, swapped, dueAtCall, paintArg, invLog,
                   cycleMax>>
    /\ UNCHANGED <<inputVars, webVars>>

\* poll_for_event returns None: the drain ends and now is sampled.
DrainDone ==
    /\ pc = "drain"
    /\ xevents = <<>>
    /\ now' = clock
    /\ pc' = "timer_check"
    /\ undrained' = FALSE
    /\ UNCHANGED <<cur, call, todo, batch, needs_redraw, next_timeout,
                   last_idle_time, clock>>
    /\ UNCHANGED <<appVars, winVars, tokVars, xVars>>
    /\ UNCHANGED <<reentry, evOutcome, fired, swapped, dueAtCall, paintArg, invLog,
                   cycleMax>>
    /\ UNCHANGED <<inputVars, webVars>>

TimersDue == next_timeout # None /\ next_timeout <= now
\* A mis-translation: every iteration of the loop makes an idle pass.
IdleDue_always == TRUE

\* `if now >= next_idle_time`
IdleDue == now >= last_idle_time + IdleInterval

TimerPassSkip ==
    /\ pc = "timer_check"
    /\ ~TimersDue
    /\ pc' = "idle_check"
    /\ UNCHANGED <<cur, call, todo, batch, needs_redraw, now, next_timeout,
                   last_idle_time, clock>>
    /\ UNCHANGED <<appVars, winVars, tokVars, xVars, obsVars>>
    /\ UNCHANGED <<inputVars, webVars>>

IdlePassSkip ==
    /\ pc = "idle_check"
    /\ ~IdleDue
    /\ pc' = "top"
    /\ UNCHANGED <<cur, call, todo, batch, needs_redraw, now, next_timeout,
                   last_idle_time, clock>>
    /\ UNCHANGED <<appVars, winVars, tokVars, xVars, obsVars>>
    /\ UNCHANGED <<inputVars, webVars>>

\* --------------------------------------------------------- event dispatch
window_stale(id) == id \in Win

\* AppInner::window: the registry lookup of handle_event.
window(id) == id \in windows

\* The handler method an event ends in.
HandlerMethod(type) ==
    CASE type = "ButtonPress" -> "pointer_down"
      [] type = "DestroyNotify" -> "destroy"

\* The Err arm of run_inner's match on handle_event: the error is logged and
\* the drain goes on with poll_for_event.
ErrArm_abort == "failed"

ErrArm == "drain"

\* handle_event for the event at the head of the connection's queue.
\* - DestroyNotify of the bookkeeping window: Ok(true), run_inner returns.
\* - an X error event, or no window with that id: Err, which run_inner logs
\*   and goes on.
\* - otherwise Window::handle_*: with_handler and the handler method.
Dispatch ==
    /\ pc = "drain"
    /\ xevents # <<>>
    /\ Head(xevents).type \notin TextKinds \cup ButtonKinds \cup PaintKinds \cup TouchKinds
    /\ LET ev == Head(xevents) IN
       /\ xevents' = Tail(xevents)
       /\ IF ev.type = "DestroyNotify" /\ ev.id = AppWin
          THEN /\ pc' = "exited"
               /\ evOutcome' = "exit"
               /\ UNCHANGED <<cur, call, handlerLock, depth, reentry>>
          ELSE IF ev.type = "Error" \/ ~window(ev.id)
          THEN /\ pc' = ErrArm
               /\ evOutcome' = "logged"
               /\ UNCHANGED <<cur, call, handlerLock, depth, reentry>>
          ELSE \E o \in with_handler(ev.id) :
               IF o = "entered"
               THEN /\ handlerLock' = [handlerLock EXCEPT ![ev.id] = TRUE]
                    /\ depth' = [depth EXCEPT ![ev.id] = @ + 1]
                    /\ cur' = ev.id
                    /\ call' = HandlerMethod(ev.type)
                    /\ pc' = IF ev.type = "DestroyNotify"
                             THEN "in_destroy" ELSE "in_event"
                    /\ evOutcome' = "handler"
                    /\ UNCHANGED reentry
               ELSE /\ pc' = o
                    /\ reentry' = o
                    /\ evOutcome' = o
                    /\ UNCHANGED <<cur, call, handlerLock, depth>>
    /\ UNCHANGED <<todo, batch, needs_redraw, now, next_timeout, last_idle_time,
                   clock>>
    /\ UNCHANGED <<destroyed, invalid, timer_queue, idle_queue>>
    /\ UNCHANGED <<appVars, tokVars, xPending, lastReq, fired, swapped, dueAtCall, undrained, cycleMax, paintArg, invLog>>
    /\ UNCHANGED <<inputVars, webVars>>

\* pointer_down returns: the guard is dropped and the drain
\* goes on with poll_for_event.
ReturnEvent ==
    /\ pc = "in_event"
    /\ handlerLock' = release_guard(cur)
    /\ depth' = [depth EXCEPT ![cur] = @ - 1]
    /\ pc' = "drain"
    /\ cur' = NoWin
    /\ call' = "none"
    /\ UNCHANGED <<todo, batch, needs_redraw, now, next_timeout, last_idle_time,
                   clock>>
    /\ UNCHANGED <<destroyed, invalid, timer_queue, idle_queue>>
    /\ UNCHANGED <<appVars, tokVars, xVars, obsVars>>
    /\ UNCHANGED <<inputVars, webVars>>

\* handler.destroy() returns: remove_window, and finalize_quit when that was
\* the last window of a quitting application.
ReturnDestroy ==
    /\ pc = "in_destroy"
    /\ handlerLock' = release_guard(cur)
    /\ depth' = [depth EXCEPT ![cur] = @ - 1]
    /\ windows' = windows \ {cur}
    /\ IF windows' = {} /\ quitting
       THEN finalize_quit
       ELSE UNCHANGED <<finalized, xPending, lastReq>>
    /\ pc' = "drain"
    /\ cur' = NoWin
    /\ call' = "none"
    /\ UNCHANGED <<todo, batch, needs_redraw, now, next_timeout, last_idle_time,
                   clock>>
    /\ UNCHANGED <<destroyed, invalid, timer_queue, idle_queue>>
    /\ UNCHANGED <<quitting, stateLock, tokVars, xevents, obsVars>>
    /\ UNCHANGED <<inputVars, webVars>>

\* ------------------------------------------------ the window life cycle
ClientCalls ==
    \/ \E w \in Win : Close(w)
    \/ Quit
    \/ Reenter

XServer ==
    \/ \E type \in NativeKinds, w \in Win : XEnqueue(type, w)
    \/ \E w \in Win \cup {AppWin} : XConfirmDestroy(w)

Next ==
    \/ LoopTop
    \/ PollReturn
    \/ DrainDone
    \/ TimerPassSkip
    \/ IdlePassSkip
    \/ Dispatch
    \/ ReturnEvent
    \/ ReturnDestroy
    \/ ClientCalls
    \/ XServer

Spec == Init /\ [][Next]_vars

\* poll_with_timeout returns Err: poll(2) failed with something other than
\* EINTR, and run_inner returns the error.
PollFail ==
    /\ pc = "wait"
    /\ pc' = "abort_poll"
    /\ UNCHANGED <<cur, call, todo, batch, needs_redraw, now, next_timeout,
                   last_idle_time, clock>>
    /\ UNCHANGED <<appVars, winVars, tokVars, xVars, obsVars>>
    /\ UNCHANGED <<inputVars, webVars>>

\* The same program with a server that also reports X errors.
NextEvents ==
    \/ Next
    \/ XError

SpecEvents == Init /\ [][NextEvents]_vars

\* ------------------------------------ the window operations of the client
NextOps ==
    \/ LoopTop
    \/ PollReturn
    \/ DrainDone
    \/ TimerPassSkip
    \/ IdlePassSkip
    \/ Dispatch
    \/ ReturnEvent
    \/ ReturnDestroy
    \/ \E op \in WinOps, w \in Win : WindowOp(op, w)
    \/ \E w \in Win : Close(w)
    \/ XServer

SpecOps == Init /\ [][NextOps]_vars

\* ------------------------------------------------------ the invalid region
\* Lengths are in half pixels and the scale is 1, so that a rectangle may
\* end inside a device pixel.  The window is WinW x WinH pixels.
Rect(x0, y0, x1, y1) == [x0 |-> x0, y0 |-> y0, x1 |-> x1, y1 |-> y1]

\* The rectangle the client invalidates: half a pixel wide on either side
\* of the window's right edge and half a pixel high, so that it ends inside
\* a device pixel and reaches outside the window.
Rects == {Rect(2 * WinW - 1, 0, 2 * WinW + 1, 1)}

\* self.size().size_dp().to_rect()
WindowRect == Rect(0, 0, 2 * WinW, 2 * WinH)

\* rect.to_px(scale).expand().to_dp(scale): every edge moves outwards to the
\* next whole device pixel.
expand(r) ==
    Rect(r.x0 - (r.x0 % 2), r.y0 - (r.y0 % 2), r.x1 + (r.x1 % 2), r.y1 + (r.y1 % 2))

\* The half-pixel cells a rectangle covers.
Cells(r) == {<<i, j>> : i \in r.x0 .. (r.x1 - 1), j \in r.y0 .. (r.y1 - 1)}

\* Region::add_rect: the region grows by the rectangle (union).
add_rect(region, r) == region \cup Cells(r)

add_invalid_rect_raw(w, r) ==
    [invalid EXCEPT ![w] = add_rect(@, r)]

\* Window::add_invalid_rect
add_invalid_rect(w, r) ==
    [invalid EXCEPT ![w] = add_rect(@, expand(r))]

\* ---------------------------------------------------------- the idle queue
Redraw == [kind |-> "Redraw", id |-> 0]

\* The bytes IdleHandle::add_idle writes to the idle pipe after pushing
\* onto queue q: wake() is called on every add.
WakeBytes_coalesced(q) == IF q = <<>> THEN 1 ELSE 0

WakeBytes(q) == 1

\* IdleHandle::add_idle on the loop thread: push, then wake.
add_idle(w, item) ==
    /\ Len(idle_queue[w]) < MaxIdle
    /\ pipe + WakeBytes(idle_queue[w]) <= MaxPipe
    /\ idle_queue' = [idle_queue EXCEPT ![w] = Append(@, item)]
    /\ pipe' = pipe + WakeBytes(idle_queue[w])

\* IdleHandle::add_idle_token, called by the handler on its own window.
AddIdleToken(w) ==
    /\ InHandler
    /\ nextIdle <= MaxIdle
    /\ add_idle(w, [kind |-> "Token", id |-> nextIdle])
    /\ nextIdle' = nextIdle + 1
    /\ UNCHANGED <<nextToken, thrWake>>
    /\ UNCHANGED <<destroyed, handlerLock, depth, invalid, timer_queue>>
    /\ UNCHANGED <<appVars, xVars, loopVars, obsVars>>
    /\ UNCHANGED <<inputVars, webVars>>

\* Window::request_anim_frame: IdleHandle::schedule_redraw.
RequestAnimFrame(w) ==
    /\ InHandler
    /\ add_idle(w, Redraw)
    /\ UNCHANGED <<nextToken, nextIdle, thrWake>>
    /\ UNCHANGED <<destroyed, handlerLock, depth, invalid, timer_queue>>
    /\ UNCHANGED <<appVars, xVars, loopVars, obsVars>>
    /\ UNCHANGED <<inputVars, webVars>>

\* Window::invalidate_rect: add_invalid_rect, then request_anim_frame.
InvalidateRect(w, r) ==
    /\ InHandler
    /\ invalid' = add_invalid_rect(w, r)
    /\ invLog' = [invLog EXCEPT ![w] = @ \cup {r}]
    /\ add_idle(w, Redraw)
    /\ UNCHANGED <<nextToken, nextIdle, thrWake>>
    /\ UNCHANGED <<destroyed, handlerLock, depth, timer_queue>>
    /\ UNCHANGED <<appVars, xVars, loopVars>>
    /\ UNCHANGED <<reentry, evOutcome, fired, swapped, dueAtCall, undrained, cycleMax, paintArg>>
    /\ UNCHANGED <<inputVars, webVars>>

\* Window::invalidate: the whole window.
Invalidate(w) == InvalidateRect(w, WindowRect)

\* IdleHandle::add_idle_callback on another thread: the push ...
ThreadPush(w) ==
    /\ pc \notin Stopped
    /\ ~thrWake
    /\ nextIdle <= MaxIdle
    /\ Len(idle_queue[w]) < MaxIdle
    /\ pipe < MaxPipe
    /\ idle_queue' = [idle_queue EXCEPT ![w] = Append(@, [kind |-> "Callback", id |-> nextIdle])]
    /\ nextIdle' = nextIdle + 1
    /\ thrWake' = (WakeBytes(idle_queue[w]) = 1)
    /\ UNCHANGED <<nextToken, pipe>>
    /\ UNCHANGED <<destroyed, handlerLock, depth, invalid, timer_queue>>
    /\ UNCHANGED <<appVars, xVars, loopVars, obsVars>>
    /\ UNCHANGED <<inputVars, webVars>>

\* ... and the wake that follows it.
ThreadWake ==
    /\ thrWake
    /\ pipe < MaxPipe
    /\ pipe' = pipe + 1
    /\ thrWake' = FALSE
    /\ UNCHANGED <<nextToken, nextIdle>>
    /\ UNCHANGED <<appVars, winVars, xVars, loopVars, obsVars>>
    /\ UNCHANGED <<inputVars, webVars>>

\* Time passes; the loop thread reads the clock when it leaves poll or the
\* drain, so the clock is advanced there.
Tick ==
    /\ pc \in {"wait", "drain"}
    /\ clock < MaxTime
    /\ clock' = clock + 1
    /\ UNCHANGED <<pc, cur, call, todo, batch, needs_redraw, now, next_timeout,
                   last_idle_time>>
    /\ UNCHANGED <<appVars, winVars, tokVars, xVars, obsVars>>
    /\ UNCHANGED <<inputVars, webVars>>

\* --------------------------------------------------------- the idle pass
\* with_handler(w) for the handler method `method`; on success the loop
\* thread is at `target` with the guard of w held.
EnterHandler(w, method, target) ==
    \E o \in with_handler(w) :
        IF o = "entered"
        THEN /\ handlerLock' = [handlerLock EXCEPT ![w] = TRUE]
             /\ depth' = [depth EXCEPT ![w] = @ + 1]
             /\ cur' = w
             /\ call' = method
             /\ pc' = target
             /\ UNCHANGED reentry
        ELSE /\ pc' = o
             /\ reentry' = o
             /\ UNCHANGED <<cur, call, handlerLock, depth>>

\* The guard is dropped and the loop thread goes on at `target`.
LeaveHandler(target) ==
    /\ handlerLock' = release_guard(cur)
    /\ depth' = [depth EXCEPT ![cur] = @ - 1]
    /\ call' = "none"
    /\ pc' = target

\* drain_idle_pipe: Ok once the pipe is empty (EAGAIN); a read of the
\* descriptor that finalize_quit has closed fails with EBADF, which is
\* returned as Err.
drain_idle_pipe == IF finalized > 0 THEN "Err" ELSE "Ok"

\* run_inner: now >= next_idle_time.  last_idle_time is set, the pipe is
\* drained (an Err leaves run_inner through the ? operator), and the state
\* lock is read-held for the pass over the windows.
IdlePassBegin ==
    /\ pc = "idle_check"
    /\ IdleDue
    /\ last_idle_time' = now
    /\ IF drain_idle_pipe = "Err"
       THEN /\ pc' = "abort_idle_pipe"
            /\ UNCHANGED <<pipe, stateLock, todo>>
       ELSE /\ pipe' = 0
            /\ stateLock' = "read"
            /\ todo' = values
            /\ pc' = "idle"
    /\ fired' = <<>>
    /\ swapped' = <<>>
    /\ UNCHANGED dueAtCall
    /\ UNCHANGED <<cur, call, batch, needs_redraw, now, next_timeout, clock>>
    /\ UNCHANGED <<windows, quitting, finalized, nextToken, nextIdle, thrWake>>
    /\ UNCHANGED <<winVars, xVars, reentry, evOutcome, undrained, cycleMax, paintArg, invLog>>
    /\ UNCHANGED <<inputVars, webVars>>

\* The item run_idle takes next from the swapped-out queue, and the rest.
NextItem_last(q) == q[Len(q)]

NextItem(q) == Head(q)

\* Window::run_idle, first part: the queue is swapped for an empty one and
\* the handler is entered once for the whole batch.
RunIdleBegin(w) ==
    /\ pc = "idle"
    /\ w \in todo
    /\ todo' = todo \ {w}
    /\ batch' = idle_queue[w]
    /\ swapped' = idle_queue[w]
    /\ UNCHANGED dueAtCall
    /\ fired' = <<>>
    /\ idle_queue' = [idle_queue EXCEPT ![w] = <<>>]
    /\ needs_redraw' = FALSE
    /\ EnterHandler(w, "none", "run_idle")
    /\ UNCHANGED <<now, next_timeout, last_idle_time, clock>>
    /\ UNCHANGED <<destroyed, invalid, timer_queue>>
    /\ UNCHANGED <<appVars, tokVars, xVars, evOutcome, undrained, cycleMax, paintArg, invLog>>
    /\ UNCHANGED <<inputVars, webVars>>

\* One turn of the for loop: a callback or a token goes to the handler, a
\* Redraw only sets needs_redraw.
IdleStep ==
    /\ pc = "run_idle"
    /\ batch # <<>>
    /\ LET item == NextItem(batch) IN
       IF item.kind = "Redraw"
       THEN /\ needs_redraw' = TRUE
            /\ UNCHANGED <<pc, call, fired>>
       ELSE /\ pc' = "in_idle"
            /\ call' = IF item.kind = "Token" THEN "idle" ELSE "callback"
            /\ fired' = Append(fired, item)
            /\ UNCHANGED needs_redraw
    /\ batch' = Tail(batch)
    /\ UNCHANGED <<cur, todo, now, next_timeout, last_idle_time, clock>>
    /\ UNCHANGED <<appVars, winVars, tokVars, xVars>>
    /\ UNCHANGED <<reentry, evOutcome, swapped, dueAtCall, undrained, cycleMax, paintArg, invLog>>
    /\ UNCHANGED <<inputVars, webVars>>

\* The callback, or handler.idle(token), returns into the for loop.
ReturnIdle ==
    /\ pc = "in_idle"
    /\ pc' = "run_idle"
    /\ call' = "none"
    /\ UNCHANGED <<cur, todo, batch, needs_redraw, now, next_timeout,
                   last_idle_time, clock>>
    /\ UNCHANGED <<appVars, winVars, tokVars, xVars, obsVars>>
    /\ UNCHANGED <<inputVars, webVars>>

\* if needs_redraw { self.redraw_now() }: where run_idle goes after the batch.
redraw_never(nr) == "idle"

redraw_now(nr) == IF nr THEN "render" ELSE "idle"

\* The for loop is over: the guard is dropped; redraw_now if needs_redraw.
RunIdleEnd ==
    /\ pc = "run_idle"
    /\ batch = <<>>
    /\ LeaveHandler(redraw_now(needs_redraw))
    /\ cur' = IF needs_redraw THEN cur ELSE NoWin
    /\ needs_redraw' = FALSE
    /\ UNCHANGED <<todo, batch, now, next_timeout, last_idle_time, clock>>
    /\ UNCHANGED <<destroyed, invalid, timer_queue, idle_queue>>
    /\ UNCHANGED <<appVars, tokVars, xVars, obsVars>>
    /\ UNCHANGED <<inputVars, webVars>>

\* Window::render, first statement: with_handler(prepare_paint).
RenderBegin ==
    /\ pc = "render"
    /\ LET w == cur IN EnterHandler(w, "prepare_paint", "in_prepare_paint")
    /\ fired' = Append(fired, Redraw)
    /\ UNCHANGED <<todo, batch, needs_redraw, now, next_timeout, last_idle_time,
                   clock>>
    /\ UNCHANGED <<destroyed, invalid, timer_queue, idle_queue>>
    /\ UNCHANGED <<appVars, tokVars, xVars, evOutcome, swapped, dueAtCall, undrained, cycleMax, paintArg, invLog>>
    /\ UNCHANGED <<inputVars, webVars>>

\* std::mem::replace(&mut invalid, Region::EMPTY)
take_invalid_keep(w) == invalid

take_invalid(w) == [invalid EXCEPT ![w] = {}]

\* A mis-translation: render does not look at the flag.
is_destroyed_unchecked(w) == FALSE

\* Window::destroyed, as render reads it after prepare_paint.
is_destroyed(w) == destroyed[w]

\* prepare_paint returns.  A destroyed window: render returns Ok.  Otherwise
\* the region is taken and handed to handler.paint.
ReturnPreparePaint ==
    /\ pc = "in_prepare_paint"
    /\ IF is_destroyed(cur)
       THEN /\ LeaveHandler("idle")
            /\ cur' = NoWin
            /\ UNCHANGED <<invalid, paintArg, invLog>>
       ELSE /\ paintArg' = invalid[cur]
            /\ invalid' = take_invalid(cur)
            /\ invLog' = [invLog EXCEPT ![cur] = {}]
            /\ call' = "paint"
            /\ pc' = "in_paint"
            /\ UNCHANGED <<cur, handlerLock, depth>>
    /\ UNCHANGED <<todo, batch, needs_redraw, now, next_timeout, last_idle_time,
                   clock>>
    /\ UNCHANGED <<destroyed, timer_queue, idle_queue>>
    /\ UNCHANGED <<appVars, tokVars, xVars, reentry, evOutcome, fired, swapped, dueAtCall, undrained, cycleMax>>
    /\ UNCHANGED <<inputVars, webVars>>

\* paint returns, and with it render and run_idle; the region that was
\* handed to paint is dropped.
ReturnPaint ==
    /\ pc = "in_paint"
    /\ LeaveHandler("idle")
    /\ cur' = NoWin
    /\ paintArg' = {}
    /\ UNCHANGED <<todo, batch, needs_redraw, now, next_timeout, last_idle_time,
                   clock>>
    /\ UNCHANGED <<destroyed, invalid, timer_queue, idle_queue>>
    /\ UNCHANGED <<appVars, tokVars, xVars>>
    /\ UNCHANGED <<reentry, evOutcome, fired, swapped, dueAtCall, undrained, cycleMax, invLog>>
    /\ UNCHANGED <<inputVars, webVars>>

\* Every window had its run_idle: the state lock is dropped.
IdlePassEnd ==
    /\ pc = "idle"
    /\ todo = {}
    /\ stateLock' = "none"
    /\ pc' = "top"
    /\ fired' = <<>>
    /\ swapped' = <<>>
    /\ UNCHANGED dueAtCall
    /\ UNCHANGED <<cur, call, todo, batch, needs_redraw, now, next_timeout,
                   last_idle_time, clock>>
    /\ UNCHANGED <<windows, quitting, finalized>>
    /\ UNCHANGED <<winVars, tokVars, xVars, reentry, evOutcome, undrained, cycleMax, paintArg, invLog>>
    /\ UNCHANGED <<inputVars, webVars>>

\* The loop with no X event and no timer: poll, then the idle pass.
IdleLoop ==
    \/ LoopTop
    \/ PollReturn
    \/ TimerPassSkip
    \/ IdlePassBegin
    \/ \E w \in Win : RunIdleBegin(w)
    \/ IdleStep
    \/ ReturnIdle
    \/ RunIdleEnd
    \/ RenderBegin
    \/ ReturnPreparePaint
    \/ ReturnPaint
    \/ IdlePassEnd
    \/ Tick

\* Idle work: callbacks added by another thread; tokens and animation
\* frames requested by the handler.
NextIdle ==
    \/ IdleLoop
    \/ \E w \in Win : ThreadPush(w)
    \/ ThreadWake
    \/ AddIdleToken(cur)
    \/ RequestAnimFrame(cur)

SpecIdle == Init /\ [][NextIdle]_vars

\* Painting: a callback added by another thread starts the handler, which
\* invalidates.
NextPaint ==
    \/ IdleLoop
    \/ \E w \in Win : ThreadPush(w)
    \/ ThreadWake
    \/ \E r \in Rects : InvalidateRect(cur, r)
    \/ Invalidate(cur)

SpecPaint == Init /\ [][NextPaint]_vars

\* Painting, with a handler that may also close its window.
NextRender ==
    \/ NextPaint
    \/ Close(cur)

SpecRender == Init /\ [][NextRender]_vars

\* ------------------------------------------------------------ the timers
\* WindowHandle::request_timer, called by the handler on its own window.
RequestTimer(w, d) ==
    /\ InHandler
    /\ nextToken <= MaxTimers
    /\ timer_queue' = [timer_queue EXCEPT
                         ![w] = @ \cup {[deadline |-> d, token |-> nextToken]}]
    /\ nextToken' = nextToken + 1
    /\ UNCHANGED <<nextIdle, pipe, thrWake>>
    /\ UNCHANGED <<destroyed, handlerLock, depth, invalid, idle_queue>>
    /\ UNCHANGED <<appVars, xVars, loopVars, obsVars>>
    /\ UNCHANGED <<inputVars, webVars>>

\* BinaryHeap::peek of the timer queue: earliest deadline first, and of two
\* timers with one deadline the one requested first.
PeekTimer(q) ==
    CHOOSE t \in q : \A u \in q :
        \/ t.deadline < u.deadline
        \/ t.deadline = u.deadline /\ t.token <= u.token

\* run_inner: next_timeout <= now.  The windows are cloned out of the
\* registry and the state lock is dropped before any run_timers.
TimerPassBegin ==
    /\ pc = "timer_check"
    /\ TimersDue
    /\ todo' = values
    /\ pc' = "timers"
    /\ fired' = <<>>
    /\ dueAtCall' = {}
    /\ cycleMax' = None
    /\ UNCHANGED <<cur, call, batch, needs_redraw, now, next_timeout,
                   last_idle_time, clock>>
    /\ UNCHANGED <<appVars, winVars, tokVars, xVars>>
    /\ UNCHANGED <<reentry, evOutcome, undrained, swapped, paintArg, invLog>>
    /\ UNCHANGED <<inputVars, webVars>>

\* Window::run_timers(now) is called for the next window of the list.
RunTimersBegin(w) ==
    /\ pc = "timers"
    /\ w \in todo
    /\ todo' = todo \ {w}
    /\ cur' = w
    /\ pc' = "run_timers"
    /\ fired' = <<>>
    /\ dueAtCall' = {t \in timer_queue[w] : t.deadline <= now}
    /\ UNCHANGED <<call, batch, needs_redraw, now, next_timeout, last_idle_time,
                   clock>>
    /\ UNCHANGED <<appVars, winVars, tokVars, xVars>>
    /\ UNCHANGED <<reentry, evOutcome, undrained, cycleMax, swapped, paintArg, invLog>>
    /\ UNCHANGED <<inputVars, webVars>>

\* timer_queue.lock().unwrap().pop(): the heap gives up its earliest timer.
pop_latest(q) ==
    CHOOSE t \in q : \A u \in q :
        \/ t.deadline > u.deadline
        \/ t.deadline = u.deadline /\ t.token >= u.token

pop(q) == PeekTimer(q)

\* One turn of the while loop: the earliest timer is popped and fired if
\* its deadline has come; otherwise (or with no timer) run_timers returns.
RunTimersStep ==
    /\ pc = "run_timers"
    /\ IF timer_queue[cur] # {} /\ PeekTimer(timer_queue[cur]).deadline <= now
       THEN LET t == pop(timer_queue[cur]) IN
            /\ timer_queue' = [timer_queue EXCEPT ![cur] = @ \ {t}]
            /\ fired' = Append(fired, t)
            /\ cycleMax' = IF t.deadline > cycleMax THEN t.deadline ELSE cycleMax
            /\ UNCHANGED dueAtCall
            /\ LET w == cur IN EnterHandler(w, "timer", "in_timer")
       ELSE /\ pc' = "timers"
            /\ cur' = NoWin
            /\ fired' = <<>>
            /\ dueAtCall' = {}
            /\ UNCHANGED <<timer_queue, call, handlerLock, depth, reentry, cycleMax>>
    /\ UNCHANGED <<todo, batch, needs_redraw, now, next_timeout, last_idle_time,
                   clock>>
    /\ UNCHANGED <<destroyed, invalid, idle_queue>>
    /\ UNCHANGED <<appVars, tokVars, xVars>>
    /\ UNCHANGED <<evOutcome, swapped, undrained, paintArg, invLog>>
    /\ UNCHANGED <<inputVars, webVars>>

\* handler.timer(token) returns into the while loop.
ReturnTimer ==
    /\ pc = "in_timer"
    /\ LeaveHandler("run_timers")
    /\ UNCHANGED <<cur, todo, batch, needs_redraw, now, next_timeout,
                   last_idle_time, clock>>
    /\ UNCHANGED <<destroyed, invalid, timer_queue, idle_queue>>
    /\ UNCHANGED <<appVars, tokVars, xVars, obsVars>>
    /\ UNCHANGED <<inputVars, webVars>>

\* Every window of the list had its run_timers.
TimerPassEnd ==
    /\ pc = "timers"
    /\ todo = {}
    /\ pc' = "idle_check"
    /\ cycleMax' = None
    /\ UNCHANGED <<cur, call, todo, batch, needs_redraw, now, next_timeout,
                   last_idle_time, clock>>
    /\ UNCHANGED <<appVars, winVars, tokVars, xVars>>
    /\ UNCHANGED <<reentry, evOutcome, fired, swapped, dueAtCall, undrained, paintArg,
                   invLog>>
    /\ UNCHANGED <<inputVars, webVars>>

NextTimers ==
    \/ LoopTop
    \/ PollReturn
    \/ DrainDone
    \/ Dispatch
    \/ ReturnEvent
    \/ TimerPassSkip
    \/ TimerPassBegin
    \/ \E w \in Win : RunTimersBegin(w)
    \/ RunTimersStep
    \/ ReturnTimer
    \/ TimerPassEnd
    \/ IdlePassSkip
    \/ IdlePassBegin
    \/ \E w \in Win : RunIdleBegin(w)
    \/ RunIdleEnd
    \/ IdlePassEnd
    \/ \E d \in 0 .. MaxTime : RequestTimer(cur, d)
    \/ \E type \in NativeKinds, w \in Win : XEnqueue(type, w)
    \/ Tick

SpecTimers == Init /\ [][NextTimers]_vars

\* Timers and idle work with no X event: what ends the blocking wait.
NextWait ==
    \/ LoopTop
    \/ PollReturn
    \/ TimerPassSkip
    \/ TimerPassBegin
    \/ \E w \in Win : RunTimersBegin(w)
    \/ RunTimersStep
    \/ ReturnTimer
    \/ TimerPassEnd
    \/ IdlePassSkip
    \/ IdlePassBegin
    \/ \E w \in Win : RunIdleBegin(w)
    \/ IdleStep
    \/ ReturnIdle
    \/ RunIdleEnd
    \/ IdlePassEnd
    \/ \E w \in Win : ThreadPush(w)
    \/ ThreadWake
    \/ \E d \in 0 .. MaxTime : RequestTimer(cur, d)
    \/ Tick

SpecWait == Init /\ [][NextWait]_vars

\* Windows that are closed while timers and idle tokens are pending for them.
\* The handler asks for its timers (with the deadline Instant::now()) and
\* idle tokens after it has closed its window; the server's events arrive
\* while the loop is in the poll, one input event at a time.
NextDrop ==
    \/ LoopTop
    \/ PollReturn
    \/ DrainDone
    \/ Dispatch
    \/ ReturnEvent
    \/ ReturnDestroy
    \/ TimerPassSkip
    \/ TimerPassBegin
    \/ \E w \in Win : RunTimersBegin(w)
    \/ RunTimersStep
    \/ ReturnTimer
    \/ TimerPassEnd
    \/ IdlePassSkip
    \/ IdlePassBegin
    \/ \E w \in Win : RunIdleBegin(w)
    \/ IdleStep
    \/ ReturnIdle
    \/ RunIdleEnd
    \/ IdlePassEnd
    \/ \E type \in NativeKinds, w \in Win :
          pc = "wait" /\ xevents = <<>> /\ XEnqueue(type, w)
    \/ \E w \in Win : pc = "wait" /\ XConfirmDestroy(w)
    \/ pc = "in_event" /\ Close(cur)
    \/ pc = "in_event" /\ destroyed[cur] /\ RequestTimer(cur, clock)
    \/ pc = "in_event" /\ destroyed[cur] /\ AddIdleToken(cur)
    \/ Tick

SpecDrop == Init /\ [][NextDrop]_vars

\* --------------------------------------------- start-up, creation and quit
\* Application::new: no window yet, the client's main has not called run.
InitApp ==
    /\ windows = {}
    /\ quitting = FALSE
    /\ finalized = 0
    /\ stateLock = "none"
    /\ destroyed = [w \in Win |-> FALSE]
    /\ handlerLock = [w \in Win |-> FALSE]
    /\ depth = [w \in Win |-> 0]
    /\ invalid = [w \in Win |-> {}]
    /\ timer_queue = [w \in Win |-> {}]
    /\ idle_queue = [w \in Win |-> <<>>]
    /\ nextToken = 1
    /\ nextIdle = 1
    /\ pipe = 0
    /\ thrWake = FALSE
    /\ xevents = <<>>
    /\ xPending = {}
    /\ lastReq = NoReq
    /\ pc = "start"
    /\ cur = NoWin
    /\ call = "none"
    /\ todo = {}
    /\ batch = <<>>
    /\ needs_redraw = FALSE
    /\ now = 0
    /\ next_timeout = None
    /\ last_idle_time = 0
    /\ clock = 0
    /\ reentry = "none"
    /\ evOutcome = "none"
    /\ fired = <<>>
    /\ swapped = <<>>
    /\ dueAtCall = {}
    /\ paintArg = {}
    /\ invLog = [w \in Win |-> {}]
    /\ undrained = FALSE
    /\ cycleMax = None
    /\ active_text_field = [w \in Win |-> None]
    /\ next_text_field = [w \in Win |-> None]
    /\ need_to_reset_compose = [w \in Win |-> FALSE]
    /\ next_field = None
    /\ reset_compose = FALSE
    /\ composing = FALSE
    /\ inputLock = <<>>
    /\ nextField = 1
    /\ ret = NoRet
    /\ lockCall = FALSE
    /\ pointer_ev = NoPointer
    /\ web_queue = <<>>
    /\ web_area = <<WinW, WinH>>
    /\ web_raf = 0
    /\ web_alive = TRUE
    /\ web_pc = "idle"
    /\ web_batch = <<>>
    /\ web_event = [delta_mode |-> 0, dx |-> 0, dy |-> 0]
    /\ web_wheel = NoWheel

\* The ids generate_id may hand out: not registered, not being destroyed
\* and with no event on its way.
FreeIds ==
    {w \in Win : /\ w \notin windows
                 /\ w \notin xPending
                 /\ \A i \in 1 .. Len(xevents) : xevents[i].id # w}

\* AppInner::add_window
add_window(w) == windows \cup {w}

\* WindowBuilder::build: a new Window (flag clear, queues empty), create_window,
\* handler.connect/scale/size on the new handler, then add_window, which
\* takes the state lock for writing.
Build(w) ==
    /\ ClientRuns
    /\ w \in FreeIds
    /\ IF stateLock # "none"
       THEN /\ \E o \in {"deadlock", "panic"} : pc' = o
            /\ UNCHANGED <<windows, destroyed, invalid, timer_queue, idle_queue,
                           invLog, lastReq>>
       ELSE /\ windows' = add_window(w)
            /\ destroyed' = [destroyed EXCEPT ![w] = FALSE]
            /\ invalid' = [invalid EXCEPT ![w] = {}]
            /\ timer_queue' = [timer_queue EXCEPT ![w] = {}]
            /\ idle_queue' = [idle_queue EXCEPT ![w] = <<>>]
            /\ invLog' = [invLog EXCEPT ![w] = {}]
            /\ lastReq' = [op |-> "create_window", id |-> w, flag |-> FALSE]
            /\ UNCHANGED pc
    /\ UNCHANGED <<cur, call, todo, batch, needs_redraw, now, next_timeout,
                   last_idle_time, clock>>
    /\ UNCHANGED <<quitting, finalized, stateLock, handlerLock, depth>>
    /\ UNCHANGED <<tokVars, xevents, xPending>>
    /\ UNCHANGED <<reentry, evOutcome, fired, swapped, dueAtCall, undrained, cycleMax, paintArg>>
    /\ active_text_field' = [active_text_field EXCEPT ![w] = None]
    /\ next_text_field' = [next_text_field EXCEPT ![w] = None]
    /\ need_to_reset_compose' = [need_to_reset_compose EXCEPT ![w] = FALSE]
    /\ UNCHANGED <<next_field, reset_compose, composing, inputLock, nextField, ret, lockCall, pointer_ev>>
    /\ UNCHANGED webVars

\* Application::run: run_inner begins.
Run ==
    /\ pc = "start"
    /\ pc' = "top"
    /\ last_idle_time' = clock
    /\ UNCHANGED <<cur, call, todo, batch, needs_redraw, now, next_timeout, clock>>
    /\ UNCHANGED <<appVars, winVars, tokVars, xVars, obsVars>>
    /\ UNCHANGED <<inputVars, webVars>>

\* The event loop with its clients creating, closing and quitting.
EventLoop ==
    \/ LoopTop
    \/ PollReturn
    \/ DrainDone
    \/ TimerPassSkip
    \/ IdlePassSkip
    \/ Dispatch
    \/ ReturnEvent
    \/ ReturnDestroy

NextQuit ==
    \/ Run
    \/ EventLoop
    \/ \E w \in Win : Build(w)
    \/ \E w \in Win : Close(w)
    \/ Quit
    \/ XServer

SpecQuit == InitApp /\ [][NextQuit]_vars

\* The same with the clock, the idle pass and a poll that can fail.
NextAbort ==
    \/ NextQuit
    \/ IdlePassBegin
    \/ \E w \in Win : RunIdleBegin(w)
    \/ RunIdleEnd
    \/ IdlePassEnd
    \/ Tick
    \/ PollFail

SpecAbort == InitApp /\ [][NextAbort]_vars

\* The same, where main does call run, the loop thread keeps running (the
\* handler methods return) and the server confirms every destroy_window.
SpecQuitLive ==
    /\ InitApp
    /\ [][NextQuit]_vars
    /\ WF_vars(Run)
    /\ WF_vars(EventLoop)
    /\ \A w \in Win \cup {AppWin} : WF_vars(XConfirmDestroy(w))

\* ------------------------------------------------------------ properties
\* The loop thread is between handler activations.
AtLoop ==
    pc \in {"top", "wait", "drain", "timer_check", "idle_check", "idle", "render",
           "timers", "run_timers", "exited"}

\* C1: a re-entrant attempt to enter the handler of a window whose handler
\* is active is rejected (skipped and logged); it neither blocks nor faults.
C1_ReentryRejected ==
    reentry \in {"none", "rejected"}

\* C2: at most one activation of a window's handler is in progress; the
\* handler runs only under the window's guard; the guard is free again once
\* the call has returned.
C2_SingleActivation ==
    /\ \A w \in Win : depth[w] <= 1 /\ (handlerLock[w] <=> depth[w] = 1)
    /\ InHandler => cur \in Win /\ handlerLock[cur] /\ call # "none"
    /\ AtLoop => \A w \in Win : ~handlerLock[w]

C2_Witness ==
    /\ pc = "in_destroy"
    /\ handlerLock[cur]
    /\ \E w \in Win : w # cur /\ ~handlerLock[w] /\ w \notin windows

\* C8: no window operation sends an X request naming a window whose
\* destroyed flag is already set.
C8_NoRequestAfterDestroy ==
    lastReq.flag = FALSE

\* The step that dispatches the event at the head of the queue.
IsDispatch == pc = "drain" /\ xevents # <<>> /\ xevents' = Tail(xevents)

\* C9 (as claimed): an input event dispatched for a window whose destroy
\* was requested is a no-op: logged, and the handler is not invoked.
C9_QueuedEventIsNoOp ==
    [][IsDispatch /\ Head(xevents).type \in NativeKinds /\ destroyed[Head(xevents).id] =>
         pc' = "drain" /\ call' = "none" /\ evOutcome' = "logged"]_vars

\* C9 (amended): an input event dispatched for a window id that is no longer
\* registered (its destroy was confirmed) is a no-op: the handler is not
\* invoked, no guard or registry entry changes, and the drain goes on; an
\* event for a window that is still registered reaches the handler, whether
\* or not its destroy was requested.
C9_UnregisteredEventIsNoOp ==
    [][IsDispatch /\ Head(xevents).type \in NativeKinds =>
         IF Head(xevents).id \in windows
         THEN pc' = "in_event" /\ cur' = Head(xevents).id /\ handlerLock'[cur']
         ELSE /\ pc' = "drain"
              /\ call' = "none"
              /\ evOutcome' = "logged"
              /\ UNCHANGED <<handlerLock, depth, windows>>]_vars

C9_Witness ==
    /\ evOutcome = "logged"
    /\ pc = "drain"
    /\ \E w \in Win : destroyed[w] /\ w \notin windows

\* C10: destruction has two phases.  The request only sets the flag and
\* sends destroy_window; the window leaves the registry, and the handler's
\* destroy() runs, only in the dispatch of the DestroyNotify of that window.
C10_TwoPhaseDestroy ==
    [][/\ \A w \in Win :
            ~destroyed[w] /\ destroyed'[w] =>
               /\ w \in xPending'
               /\ windows' = windows
               /\ call' = call
               /\ pc' = pc
       /\ \A w \in Win :
            w \in windows /\ w \notin windows' =>
               pc = "in_destroy" /\ cur = w /\ call = "destroy"
       /\ call # "destroy" /\ call' = "destroy" =>
            /\ IsDispatch
            /\ Head(xevents) = [type |-> "DestroyNotify", id |-> cur']
            /\ cur' \in windows]_vars

C10_Witness ==
    \E w \in Win :
       /\ destroyed[w]
       /\ w \notin windows
       /\ w \notin xPending
       /\ pc = "drain"

\* An add_idle call pushes an item onto the queue of window w.
Pushes(w) == Len(idle_queue'[w]) = Len(idle_queue[w]) + 1

IsWork(item) == item.kind # "Redraw"
HasRedraw(q) == \E i \in 1 .. Len(q) : q[i] = Redraw

TakesRegion == pc = "in_prepare_paint" /\ pc' = "in_paint"

\* The device pixels that the rectangles of S overlap, as cells.
PixelCover(S) ==
    LET touched == {<<c[1] \div 2, c[2] \div 2>> : c \in UNION {Cells(r) : r \in S}}
    IN UNION {Cells(Rect(2 * p[1], 2 * p[2], 2 * p[1] + 2, 2 * p[2] + 2)) : p \in touched}

RenderReturns == pc \in {"in_prepare_paint", "in_paint"} /\ pc' = "idle"

RunTimersReturns == pc = "run_timers" /\ pc' = "timers"

\* C5: run_timers(now) fires exactly the timers that were pending with a
\* deadline <= now, each once, in non-decreasing deadline order, and takes
\* no timer with a later deadline out of the queue.
C5_RunTimersExactInOrder ==
    [][/\ RunTimersReturns =>
            /\ {fired[i] : i \in 1 .. Len(fired)} = dueAtCall
            /\ Len(fired) = Cardinality(dueAtCall)
            /\ \A i, j \in 1 .. Len(fired) :
                 i < j => fired[i].deadline <= fired[j].deadline
       /\ \A w \in Win : \A t \in timer_queue[w] \ timer_queue'[w] :
            t.deadline <= now]_vars

\* C15 (as stated): run_inner returns an error only out of the blocking wait.
C15_AbortOnlyFromBlockingWait ==
    pc \in {"abort_poll", "abort_idle_pipe"} => pc = "abort_poll"

\* C11: when the loop exits on the DestroyNotify of the bookkeeping window,
\* no window is left in the registry.
C11_ExitOnlyWhenRegistryEmpty ==
    pc = "exited" => windows = {}

\* C12: once quit has been requested the loop exits.
C12_QuitLeadsToExit ==
    quitting ~> pc = "exited"

\* C13 (as stated): no timer fires and no idle item runs in a wake cycle
\* whose event phase ended with native events still buffered.
C13_EventsBeforeTimersAndIdle ==
    pc \in {"in_timer", "in_idle"} => ~undrained

\* C13: an iteration that found an event without blocking dispatches events
\* until none is available before it turns to timers and idle work; an
\* iteration that blocked in the poll dispatches no event at all, and the
\* event that ended the wait is dispatched at the start of the next iteration.
C13_DrainOnlyWithoutBlocking ==
    [][/\ (pc = "drain" /\ pc' = "timer_check") => xevents = <<>>
       /\ (pc = "wait" /\ pc' # "wait") => pc' = "timer_check" /\ xevents' = xevents
       /\ (pc' = "drain" /\ pc \notin {"drain", "in_event", "in_destroy"})
              => pc = "top" /\ xevents # <<>>
       /\ (pc' = "wait" /\ pc # "wait") => pc = "top" /\ xevents = <<>>]_vars

C13_Witness ==
    pc = "in_timer" /\ undrained /\ xevents # <<>>

\* The dispatch of an event whose handling fails: an X error event, or an
\* event for a window id that is not registered.
IsFailedDispatch ==
    /\ IsDispatch
    /\ ~(Head(xevents).type = "DestroyNotify" /\ Head(xevents).id = AppWin)
    /\ (Head(xevents).type = "Error" \/ Head(xevents).id \notin windows)

\* C14: a failure while handling one native event is logged and does not end
\* the loop; the registry, the guards and the destroyed flags are unchanged,
\* no handler is invoked, and the drain goes on to dispatch the next event.
C14_EventErrorIsLoggedOnly ==
    [][IsFailedDispatch =>
         /\ evOutcome' = "logged"
         /\ pc' = "drain"
         /\ call' = "none"
         /\ UNCHANGED <<windows, quitting, finalized, handlerLock, depth, destroyed>>
         /\ (xevents # <<>> => ENABLED Dispatch)']_vars

C14_Witness ==
    /\ evOutcome = "logged"
    /\ pc = "drain"
    /\ xevents # <<>>
    /\ Head(xevents).id \in windows

\* C16 (as stated): while the loop thread holds the handler guard of a window
\* it holds no other lock; the state lock is the one the loop takes around
\* whole passes.
C16_GuardHeldAlone ==
    \A w \in Win : handlerLock[w] => stateLock = "none"

\* run_timers calls handler.timer(token).
FiresTimer == pc = "run_timers" /\ pc' = "in_timer"

\* C17 (as stated): within one wake cycle the timers fire, over all windows,
\* in non-decreasing deadline order: no timer fires after one with a later
\* deadline.
C17_CycleDeadlineOrder ==
    [][FiresTimer => cycleMax <= fired'[Len(fired')].deadline]_vars

\* C17: within one run_timers call the timers that were due when the call
\* began fire in non-decreasing deadline order among themselves; the windows
\* are served one after the other, each with all its due timers, whatever
\* the deadlines in the windows still to come.
C17_DeadlineOrderPerWindow ==
    [][/\ FiresTimer =>
            \A i \in 1 .. Len(fired) :
                (fired[i] \in dueAtCall /\ fired'[Len(fired')] \in dueAtCall)
                    => fired[i].deadline <= fired'[Len(fired')].deadline
       /\ RunTimersReturns => dueAtCall \subseteq {fired[i] : i \in 1 .. Len(fired)}]_vars

C17_Witness ==
    /\ pc = "in_timer"
    /\ Len(fired) = 1
    /\ fired[1].deadline < cycleMax
    /\ fired[1] \in dueAtCall

\* C18 (as stated): a run_timers call fires only timers that were in the
\* queue when the call began; one requested by a timer callback of the same
\* call waits for a later iteration of the loop.
C18_NoInlineFiring ==
    [][FiresTimer => fired'[Len(fired')] \in dueAtCall]_vars

\* The number of Redraw markers in a batch, and of renders among the things
\* a run_idle call has done.
RedrawCount(q) == Cardinality({i \in 1 .. Len(q) : q[i] = Redraw})

WaitDeadline ==
    Min({last_idle_time + IdleInterval}
            \cup (IF next_timeout = None THEN {} ELSE {next_timeout}))

\* C20 (as stated): the blocking wait is over by the earlier of the timer
\* deadline and the idle tick, with no native event and no wake signal.
C20_WaitEndsByEarliestDeadline ==
    (pc = "wait" /\ clock >= WaitDeadline) => ENABLED PollReturn

\* C20: the wait ends on a native event, at the earliest timer deadline, or,
\* only once the wake pipe has been signalled, at the idle tick; without a
\* wake signal the idle tick does not end it.
C20_WaitEndsByTimerOrSignalledTick ==
    [][/\ (pc = "wait" /\ pc' = "timer_check") =>
            \/ xevents # <<>>
            \/ next_timeout # None /\ clock >= next_timeout
            \/ pipe > 0 /\ clock >= last_idle_time + IdleInterval
       /\ (pc = "wait" /\ next_timeout # None /\ clock >= next_timeout)
            => ENABLED PollReturn
       /\ (pc = "wait" /\ pipe > 0 /\ clock >= WaitDeadline)
            => ENABLED PollReturn]_vars

\* Blocked past the idle tick: no timer, no wake signal, no event.
C20_Witness ==
    /\ pc = "wait"
    /\ pipe = 0
    /\ xevents = <<>>
    /\ next_timeout = None
    /\ clock > last_idle_time + IdleInterval
    /\ ~ENABLED PollReturn

\* q is an initial part of r.
(***************************************************************************)
(* WindowHandle methods on a handle whose window field is None             *)
(* (WindowHandle::default()).  ret records the method and what it gave     *)
(* back to its caller.                                                     *)
(***************************************************************************)
MaxFields == 2

HandleOps ==
    {"show", "close", "resizable", "show_titlebar", "set_position",
     "get_position", "content_insets", "set_size", "get_size",
     "set_window_state", "get_window_state", "handle_titlebar",
     "bring_to_front_and_focus", "request_anim_frame", "invalidate",
     "invalidate_rect", "set_title", "set_menu", "add_text_field",
     "remove_text_field", "set_focused_text_field", "update_text_field",
     "request_timer", "set_cursor", "make_cursor", "open_file", "save_as",
     "show_context_menu", "get_idle_handle", "get_scale"}

\* A mis-translation of the else branches: getters answer as for a live window.
DroppedRet_live(op) ==
    CASE op = "get_position" -> "Point(x,y)"
      [] op = "get_size" -> "Size(w,h)"
      [] op = "get_scale" -> "Ok(scale)"
      [] op = "request_timer" -> "TimerToken"
      [] op = "get_idle_handle" -> "Some(IdleHandle)"
      [] OTHER -> "()"

\* What each method returns in its `else` branch (self.window is None);
\* "()" for the methods that return nothing.
DroppedRet(op) ==
    CASE op = "get_position" -> "Point(0,0)"
      [] op = "get_size" -> "Size::ZERO"
      [] op = "get_scale" -> "Ok(Scale(1,1))"
      [] op = "content_insets" -> "Insets::ZERO"
      [] op = "get_window_state" -> "Restored"
      [] op = "request_timer" -> "TimerToken::INVALID"
      [] op \in {"make_cursor", "open_file", "save_as", "get_idle_handle"} -> "None"
      [] op = "add_text_field" -> "TextFieldToken"
      [] OTHER -> "()"

\* One method call on the dropped handle.  add_text_field never looks at
\* self.window: it returns TextFieldToken::next(), a fresh token.
DroppedOp(op) ==
    /\ InHandler
    /\ op = "add_text_field" => nextField <= MaxFields
    /\ ret' = [op |-> op, val |-> DroppedRet(op),
               token |-> IF op = "add_text_field" THEN nextField ELSE 0]
    /\ nextField' = IF op = "add_text_field" THEN nextField + 1 ELSE nextField
    /\ UNCHANGED <<active_text_field, next_text_field, need_to_reset_compose,
                   next_field, reset_compose, composing, inputLock, lockCall,
                   pointer_ev>>
    /\ UNCHANGED <<appVars, winVars, tokVars, xVars, loopVars, obsVars, webVars>>

\* One input event at a time; its handler uses a live handle and the dropped one.
NextHandle ==
    \/ LoopTop \/ PollReturn \/ DrainDone \/ TimerPassSkip \/ IdlePassSkip
    \/ Dispatch \/ ReturnEvent
    \/ \E type \in NativeKinds, w \in Win :
          pc = "wait" /\ xevents = <<>> /\ XEnqueue(type, w)
    \/ \E op \in WinOps : pc = "in_event" /\ WindowOp(op, cur)
    \/ \E op \in HandleOps : DroppedOp(op)

SpecHandle == Init /\ [][NextHandle]_vars


(***************************************************************************)
(* Key events and focus loss: Window::handle_key_event,                    *)
(* reset_text_fields_if_needed and handle_lost_focus.  The handler methods *)
(* key_down, key_up, lost_focus, acquire_input_lock and release_input_lock *)
(* are client code: a step each, with the client's calls in between.       *)
(***************************************************************************)
KeyMethod(type) ==
    CASE type = "KeyPress" -> "key_down"
      [] type = "KeyRelease" -> "key_up"
      [] type = "FocusOut" -> "lost_focus"

\* The KeyPress, KeyRelease and FocusOut arms of handle_event: the state is
\* borrowed mutably for xkb_state while the window's handler runs.
DispatchText ==
    /\ pc = "drain"
    /\ xevents # <<>>
    /\ Head(xevents).type \in TextKinds
    /\ LET ev == Head(xevents) IN
       /\ xevents' = Tail(xevents)
       /\ IF ~window(ev.id)
          THEN /\ pc' = ErrArm
               /\ evOutcome' = "logged"
               /\ UNCHANGED <<cur, call, handlerLock, depth, reentry, stateLock>>
          ELSE \E o \in with_handler(ev.id) :
               IF o = "entered"
               THEN /\ handlerLock' = [handlerLock EXCEPT ![ev.id] = TRUE]
                    /\ depth' = [depth EXCEPT ![ev.id] = @ + 1]
                    /\ cur' = ev.id
                    /\ call' = KeyMethod(ev.type)
                    /\ pc' = "in_" \o KeyMethod(ev.type)
                    /\ stateLock' = "write"
                    /\ evOutcome' = "handler"
                    /\ UNCHANGED reentry
               ELSE /\ pc' = o
                    /\ reentry' = o
                    /\ evOutcome' = o
                    /\ UNCHANGED <<cur, call, handlerLock, depth, stateLock>>
    /\ UNCHANGED <<todo, batch, needs_redraw, now, next_timeout, last_idle_time,
                   clock>>
    /\ UNCHANGED <<destroyed, invalid, timer_queue, idle_queue>>
    /\ UNCHANGED <<windows, quitting, finalized, tokVars, xPending, lastReq,
                   fired, swapped, dueAtCall, undrained, cycleMax, paintArg, invLog>>
    /\ lockCall' = FALSE
    /\ UNCHANGED <<active_text_field, next_text_field, need_to_reset_compose,
                   next_field, reset_compose, composing, inputLock, nextField, ret,
                   pointer_ev, webVars>>

\* The closure given to with_handler returns: guard and state borrow are dropped.
EndText ==
    /\ handlerLock' = release_guard(cur)
    /\ depth' = [depth EXCEPT ![cur] = @ - 1]
    /\ stateLock' = "none"
    /\ pc' = "drain"
    /\ cur' = NoWin
    /\ call' = "none"

TextFrame ==
    /\ UNCHANGED <<todo, batch, needs_redraw, now, next_timeout, last_idle_time,
                   clock>>
    /\ UNCHANGED <<destroyed, invalid, timer_queue, idle_queue>>
    /\ UNCHANGED <<windows, quitting, finalized, tokVars, xVars, obsVars>>
    /\ UNCHANGED <<next_text_field, need_to_reset_compose, nextField, ret, lockCall,
                   pointer_ev, webVars>>

StayInHandler == UNCHANGED <<handlerLock, depth, stateLock, cur, call>>

\* A mis-translation: the lock of a field is never given back.
release_input_lock_skipped(field) == inputLock

\* handler.acquire_input_lock(field, true) and handler.release_input_lock(field):
\* inputLock lists the fields whose lock the handler has handed out.
acquire_input_lock(field) == Append(inputLock, field)

release_input_lock(field) == SelectSeq(inputLock, LAMBDA f : f # field)

\* The local (previous, field) that was given to acquire_input_lock.
held == inputLock[Len(inputLock)]

\* A mis-translation: the requested field is never made the active one.
set_active_skipped(w, field) == active_text_field

\* `self.active_text_field.set(next_field)`
set_active(w, field) == [active_text_field EXCEPT ![w] = field]

\* `if handler.key_down(&event) { return; }`
KeyHandled(handled) == call = "key_down" /\ handled

\* key_down or key_up returns.  Unless the key down was handled,
\* reset_text_fields_if_needed starts: it reads next_text_field and
\* need_to_reset_compose, and when the requested field is not the active one
\* cancels the composition and clears the range of the previous field.
ReturnKey(handled) ==
    /\ pc \in {"in_key_down", "in_key_up"}
    /\ IF KeyHandled(handled)
       THEN /\ EndText
            /\ UNCHANGED <<active_text_field, next_field, reset_compose,
                           composing, inputLock>>
       ELSE LET next == next_text_field[cur]
                previous == active_text_field[cur] IN
            /\ next_field' = next
            /\ reset_compose' = need_to_reset_compose[cur]
            /\ StayInHandler
            /\ IF next # previous
               THEN /\ composing' = FALSE
                    /\ IF composing /\ previous # None
                       THEN /\ inputLock' = acquire_input_lock(previous)
                            /\ pc' = "in_lock_prev"
                            /\ UNCHANGED active_text_field
                       ELSE /\ active_text_field' = set_active(cur, next)
                            /\ pc' = "reset"
                            /\ UNCHANGED inputLock
               ELSE /\ pc' = "reset"
                    /\ UNCHANGED <<active_text_field, composing, inputLock>>
    /\ TextFrame

\* release_input_lock(previous) returns; `self.active_text_field.set(next_field)`.
ReleasePrev ==
    /\ pc = "in_lock_prev"
    /\ inputLock' = release_input_lock(held)
    /\ active_text_field' = set_active(cur, next_field)
    /\ pc' = "reset"
    /\ StayInHandler
    /\ UNCHANGED <<next_field, reset_compose, composing>>
    /\ TextFrame

\* `if need_to_reset_compose && xkb_state.cancel_composing()`
ResetCompose ==
    /\ pc = "reset"
    /\ IF reset_compose
       THEN /\ composing' = FALSE
            /\ IF composing /\ next_field # None
               THEN inputLock' = acquire_input_lock(next_field) /\ pc' = "in_lock_next"
               ELSE pc' = "reset_done" /\ UNCHANGED inputLock
       ELSE pc' = "reset_done" /\ UNCHANGED <<composing, inputLock>>
    /\ StayInHandler
    /\ UNCHANGED <<active_text_field, next_field, reset_compose>>
    /\ TextFrame

ReleaseNext ==
    /\ pc = "in_lock_next"
    /\ inputLock' = release_input_lock(next_field)
    /\ pc' = "reset_done"
    /\ StayInHandler
    /\ UNCHANGED <<active_text_field, next_field, reset_compose, composing>>
    /\ TextFrame

\* reset_text_fields_if_needed has returned next_field: a key down in a text
\* field goes on to xkb_simulate_input under the input lock of that field;
\* a key up, and a key down outside a text field, are done.
AfterReset ==
    /\ pc = "reset_done"
    /\ IF call = "key_down" /\ next_field # None
       THEN /\ inputLock' = acquire_input_lock(next_field)
            /\ pc' = "in_lock_input"
            /\ StayInHandler
       ELSE /\ EndText
            /\ UNCHANGED inputLock
    /\ UNCHANGED <<active_text_field, next_field, reset_compose, composing>>
    /\ TextFrame

\* xkb_simulate_input may start, continue or finish a composition;
\* release_input_lock(field_token) returns.
ReleaseInput ==
    /\ pc = "in_lock_input"
    /\ composing' \in BOOLEAN
    /\ inputLock' = release_input_lock(next_field)
    /\ EndText
    /\ UNCHANGED <<active_text_field, next_field, reset_compose>>
    /\ TextFrame

\* lost_focus returns; a composition in the active field is cancelled.
ReturnLostFocus ==
    /\ pc = "in_lost_focus"
    /\ IF active_text_field[cur] # None
       THEN /\ composing' = FALSE
            /\ IF composing
               THEN /\ inputLock' = acquire_input_lock(active_text_field[cur])
                    /\ pc' = "in_lock_focus"
                    /\ StayInHandler
               ELSE EndText /\ UNCHANGED inputLock
       ELSE EndText /\ UNCHANGED <<composing, inputLock>>
    /\ UNCHANGED <<active_text_field, next_field, reset_compose>>
    /\ TextFrame

ReleaseFocus ==
    /\ pc = "in_lock_focus"
    /\ inputLock' = release_input_lock(held)
    /\ EndText
    /\ UNCHANGED <<active_text_field, next_field, reset_compose, composing>>
    /\ TextFrame

\* The client's text-field calls on the handle of the window being served.
ClientTextFrame ==
    /\ UNCHANGED <<appVars, winVars, tokVars, xVars, loopVars, obsVars>>
    /\ UNCHANGED <<next_field, reset_compose, composing, inputLock, nextField, ret,
                   pointer_ev, webVars>>
    /\ lockCall' = (lockCall \/ InLock)

SetFocusedTextField(w, active_field) ==
    /\ InTextHandler
    /\ next_text_field' = [next_text_field EXCEPT ![w] = active_field]
    /\ UNCHANGED <<active_text_field, need_to_reset_compose>>
    /\ ClientTextFrame

RemoveTextField(w, token) ==
    /\ InTextHandler
    /\ next_text_field' = [next_text_field EXCEPT
                             ![w] = IF @ = token THEN None ELSE @]
    /\ active_text_field' = [active_text_field EXCEPT
                               ![w] = IF @ = token THEN None ELSE @]
    /\ need_to_reset_compose' = [need_to_reset_compose EXCEPT
          ![w] = @ \/ next_text_field[w] = token \/ active_text_field[w] = token]
    /\ ClientTextFrame

UpdateTextField(w, token) ==
    /\ InTextHandler
    /\ need_to_reset_compose' = [need_to_reset_compose EXCEPT
                                   ![w] = @ \/ active_text_field[w] = token]
    /\ UNCHANGED <<active_text_field, next_text_field>>
    /\ ClientTextFrame

\* add_text_field is the same on every handle.
AddTextField ==
    /\ InTextHandler
    /\ nextField <= MaxFields
    /\ nextField' = nextField + 1
    /\ ret' = [op |-> "add_text_field", val |-> "TextFieldToken", token |-> nextField]
    /\ UNCHANGED <<active_text_field, next_text_field, need_to_reset_compose,
                   next_field, reset_compose, composing, inputLock, lockCall,
                   pointer_ev>>
    /\ UNCHANGED <<appVars, winVars, tokVars, xVars, loopVars, obsVars, webVars>>

\* Tokens the client holds are those add_text_field has handed out.
Issued == 1 .. (nextField - 1)

NextText ==
    \/ LoopTop \/ PollReturn \/ DrainDone \/ TimerPassSkip \/ IdlePassSkip
    \/ \E type \in TextKinds, w \in Win :
          pc = "wait" /\ xevents = <<>> /\ XEnqueue(type, w)
    \/ DispatchText
    \/ \E handled \in BOOLEAN : ReturnKey(handled)
    \/ ReleasePrev \/ ResetCompose \/ ReleaseNext \/ AfterReset \/ ReleaseInput
    \/ ReturnLostFocus \/ ReleaseFocus
    \/ AddTextField
    \/ \E f \in Issued \cup {None} : SetFocusedTextField(cur, f)
    \/ \E f \in Issued : RemoveTextField(cur, f)
    \/ \E f \in Issued : UpdateTextField(cur, f)

SpecText == Init /\ [][NextText]_vars

(***************************************************************************)
(* Timers under a loop that keeps running: requests come from event,       *)
(* timer and idle callbacks, no window is closed.  The loop and the        *)
(* handler methods it calls always go on, and time passes.                 *)
(***************************************************************************)
LoopStep ==
    \/ LoopTop \/ PollReturn \/ DrainDone \/ Dispatch \/ ReturnEvent
    \/ TimerPassSkip \/ TimerPassBegin \/ \E w \in Win : RunTimersBegin(w)
    \/ RunTimersStep \/ ReturnTimer \/ TimerPassEnd
    \/ IdlePassSkip \/ IdlePassBegin \/ \E w \in Win : RunIdleBegin(w)
    \/ IdleStep \/ ReturnIdle \/ RunIdleEnd \/ IdlePassEnd

NextTimerLive ==
    \/ LoopStep
    \/ \E type \in NativeKinds, w \in Win :
          pc = "wait" /\ xevents = <<>> /\ XEnqueue(type, w)
    \/ pc = "in_event" /\ nextIdle = 1 /\ AddIdleToken(cur)
    \/ \E d \in {clock, clock + 1} \cap (0 .. MaxTime) : RequestTimer(cur, d)
    \/ Tick

\* The loop thread is always scheduled (weak fairness of its steps).  The
\* clock runs whatever the loop does; the model lets it advance only where
\* the loop reads it, hence strong fairness of Tick.
SpecTimerLive ==
    /\ Init
    /\ [][NextTimerLive]_vars
    /\ WF_vars(LoopStep)
    /\ SF_vars(Tick)

(***************************************************************************)
(* Idle work under a loop that keeps running: items are added by other     *)
(* threads (push, then wake, as two steps) at any point of the loop, and   *)
(* by handler methods on the loop thread.                                  *)
(***************************************************************************)
NextIdleLive ==
    \/ LoopStep
    \/ \E type \in NativeKinds, w \in Win :
          pc = "wait" /\ xevents = <<>> /\ XEnqueue(type, w)
    \/ \E w \in Win : clock < MaxTime /\ ThreadPush(w)
    \/ ThreadWake
    \/ clock < MaxTime /\ AddIdleToken(cur)
    \/ \E d \in {clock, clock + 1} \cap (0 .. MaxTime) :
          pc = "in_event" /\ nextToken = 1 /\ RequestTimer(cur, d)
    \/ Tick

\* The loop thread and the adding thread are always scheduled; the clock
\* runs whatever the loop does.
SpecIdleLive ==
    /\ Init
    /\ [][NextIdleLive]_vars
    /\ WF_vars(LoopStep)
    /\ WF_vars(ThreadWake)
    /\ SF_vars(Tick)

(***************************************************************************)
(* XInput button events: the XinputButtonPress and XinputButtonRelease     *)
(* arms of handle_event, Window::handle_wheel, handle_button_press,        *)
(* handle_button_release and pointer_button.                               *)
(***************************************************************************)
MaxDetail == 10

Details == 0 .. MaxDetail

\* A mis-translation: buttons 4 and 5 scroll vertically whatever the modifiers.
WheelDelta_noshift(detail, is_shift) ==
    CASE detail = 4 -> <<0, 0 - 120>>
      [] detail = 5 -> <<0, 120>>
      [] detail = 6 -> <<0 - 120, 0>>
      [] detail = 7 -> <<120, 0>>

\* `let delta = match ev.detail { .. }` of handle_wheel, as <<x, y>>.
WheelDelta(detail, is_shift) ==
    CASE detail = 4 /\ is_shift -> <<0 - 120, 0>>
      [] detail = 4 /\ ~is_shift -> <<0, 0 - 120>>
      [] detail = 5 /\ is_shift -> <<120, 0>>
      [] detail = 5 /\ ~is_shift -> <<0, 120>>
      [] detail = 6 -> <<0 - 120, 0>>
      [] detail = 7 -> <<120, 0>>

pointer_button(button) ==
    CASE button = 0 -> "None"
      [] button = 1 -> "Primary"
      [] button = 2 -> "Auxiliary"
      [] button = 3 -> "Secondary"
      [] button \in 4 .. 7 -> "None"
      [] button = 8 -> "X1"
      [] button = 9 -> "X2"
      [] OTHER -> "None"

\* Window::pointer_event: the button from ev.detail, no wheel delta.
pointer_event(ev) == [button |-> pointer_button(ev.detail), wheel_delta |-> <<0, 0>>]

IsWheel(ev) == ev.detail >= 4 /\ ev.detail <= 7

\* The server sends a button press or release.
XButton(type, w, detail, shift) ==
    /\ pc \notin Stopped
    /\ Len(xevents) < MaxEvents
    /\ xevents' = Append(xevents, [type |-> type, id |-> w, detail |-> detail,
                                   shift |-> shift])
    /\ UNCHANGED <<xPending, lastReq>>
    /\ UNCHANGED <<appVars, winVars, tokVars, loopVars, obsVars>>
    /\ UNCHANGED <<inputVars, webVars>>

\* The XinputButtonPress and XinputButtonRelease arms of handle_event.
DispatchButton ==
    /\ pc = "drain"
    /\ xevents # <<>>
    /\ Head(xevents).type \in ButtonKinds
    /\ LET ev == Head(xevents)
           method == IF ev.type = "XinputButtonRelease" THEN "pointer_up"
                     ELSE IF IsWheel(ev) THEN "wheel" ELSE "pointer_down" IN
       /\ xevents' = Tail(xevents)
       /\ IF ~window(ev.id)
          THEN /\ pc' = ErrArm
               /\ evOutcome' = "logged"
               /\ UNCHANGED <<cur, call, handlerLock, depth, reentry, pointer_ev>>
          ELSE IF ev.type = "XinputButtonRelease" /\ IsWheel(ev)
          THEN /\ pc' = "drain"
               /\ evOutcome' = "ignored"
               /\ UNCHANGED <<cur, call, handlerLock, depth, reentry, pointer_ev>>
          ELSE /\ pointer_ev' =
                    IF method = "wheel"
                    THEN [button |-> "None",
                          wheel_delta |-> WheelDelta(ev.detail, ev.shift)]
                    ELSE pointer_event(ev)
               /\ \E o \in with_handler(ev.id) :
                    IF o = "entered"
                    THEN /\ handlerLock' = [handlerLock EXCEPT ![ev.id] = TRUE]
                         /\ depth' = [depth EXCEPT ![ev.id] = @ + 1]
                         /\ cur' = ev.id
                         /\ call' = method
                         /\ pc' = "in_event"
                         /\ evOutcome' = "handler"
                         /\ UNCHANGED reentry
                    ELSE /\ pc' = o
                         /\ reentry' = o
                         /\ evOutcome' = o
                         /\ UNCHANGED <<cur, call, handlerLock, depth>>
    /\ UNCHANGED <<todo, batch, needs_redraw, now, next_timeout, last_idle_time,
                   clock>>
    /\ UNCHANGED <<destroyed, invalid, timer_queue, idle_queue>>
    /\ UNCHANGED <<appVars, tokVars, xPending, lastReq, fired, swapped, dueAtCall,
                   undrained, cycleMax, paintArg, invLog>>
    /\ UNCHANGED <<active_text_field, next_text_field, need_to_reset_compose,
                   next_field, reset_compose, composing, inputLock, nextField, ret,
                   lockCall, webVars>>

NextWheel ==
    \/ LoopTop \/ PollReturn \/ DrainDone \/ TimerPassSkip \/ IdlePassSkip
    \/ \E type \in ButtonKinds, w \in Win, detail \in Details, shift \in BOOLEAN :
          /\ pc = "wait"
          /\ \/ xevents = <<>>
             \/ /\ type = "XinputButtonRelease"
                /\ xevents = <<[type |-> "XinputButtonPress", id |-> w,
                                detail |-> detail, shift |-> shift]>>
          /\ XButton(type, w, detail, shift)
    \/ DispatchButton
    \/ ReturnEvent

SpecWheel == Init /\ [][NextWheel]_vars

(***************************************************************************)
(* The web backend: IdleHandle::add_idle_callback / add_idle_token,        *)
(* WindowState::process_idle_queue and the wheel listener.  The browser    *)
(* runs one task at a time: a task starts only when web_pc = "idle".       *)
(***************************************************************************)
MaxDelta == 1

Deltas == (0 - MaxDelta) .. MaxDelta

\* WheelEvent.deltaMode: DOM_DELTA_PIXEL, DOM_DELTA_LINE, DOM_DELTA_PAGE, and
\* a value that is none of them.
DOM_DELTA_PIXEL == 0
DOM_DELTA_LINE == 1
DOM_DELTA_PAGE == 2
DeltaModes == 0 .. 3

WebSizes == {<<WinW, WinH>>, <<WinW + 1, WinH + 1>>}

WebStopped == {"deadlock", "panic"}

\* Client code is running: a handler method, an idle callback, or code
\* outside of any browser task of the window.
WebClient == web_pc \in {"idle", "in_wheel", "in_callback"}

\* A mis-translation: every add asks for an animation frame.
ShouldSchedule_always(queue) == TRUE

\* `if queue.len() == 1`, after the push.
ShouldSchedule(queue) == Len(queue) = 1

\* add_idle_callback ("Callback") and add_idle_token ("Token").  The queue
\* mutex is held by process_idle_queue while it runs the items, and is not
\* reentrant: an add made by an idle callback blocks or panics.
WebAddIdle(kind) ==
    /\ WebClient
    /\ IF web_pc = "in_callback"
       THEN /\ web_pc' \in WebStopped
            /\ UNCHANGED <<web_queue, web_raf>>
       ELSE /\ Len(web_queue) < MaxIdle
            /\ web_queue' = Append(web_queue, kind)
            /\ web_raf' = IF ShouldSchedule(web_queue') /\ web_alive
                          THEN web_raf + 1 ELSE web_raf
            /\ UNCHANGED web_pc
    /\ UNCHANGED <<web_area, web_alive, web_batch, web_event, web_wheel>>
    /\ UNCHANGED <<appVars, winVars, tokVars, xVars, loopVars, obsVars, inputVars>>

\* The browser runs a pending animation-frame callback: process_idle_queue
\* locks the queue and drains it.
WebFrame ==
    /\ web_pc = "idle"
    /\ web_raf > 0
    /\ web_raf' = web_raf - 1
    /\ web_batch' = web_queue
    /\ web_queue' = <<>>
    /\ web_pc' = "processing"
    /\ UNCHANGED <<web_area, web_alive, web_event, web_wheel>>
    /\ UNCHANGED <<appVars, winVars, tokVars, xVars, loopVars, obsVars, inputVars>>

WebIdleStep ==
    /\ web_pc = "processing"
    /\ IF web_batch # <<>>
       THEN web_batch' = Tail(web_batch) /\ web_pc' = "in_callback"
       ELSE web_pc' = "idle" /\ UNCHANGED web_batch
    /\ UNCHANGED <<web_queue, web_area, web_raf, web_alive, web_event, web_wheel>>
    /\ UNCHANGED <<appVars, winVars, tokVars, xVars, loopVars, obsVars, inputVars>>

WebReturn ==
    /\ web_pc \in {"in_callback", "in_wheel"}
    /\ web_pc' = IF web_pc = "in_callback" THEN "processing" ELSE "idle"
    /\ UNCHANGED <<web_queue, web_area, web_raf, web_alive, web_batch, web_event, web_wheel>>
    /\ UNCHANGED <<appVars, winVars, tokVars, xVars, loopVars, obsVars, inputVars>>

\* The last Rc<WindowState> goes away; a pending animation-frame closure
\* holds one.
WebDrop ==
    /\ web_pc = "idle"
    /\ web_raf = 0
    /\ web_alive
    /\ web_alive' = FALSE
    /\ UNCHANGED <<web_queue, web_area, web_raf, web_pc, web_batch, web_event, web_wheel>>
    /\ UNCHANGED <<appVars, winVars, tokVars, xVars, loopVars, obsVars, inputVars>>

\* The resize listener: update_scale_and_area.
WebResize(size) ==
    /\ web_pc = "idle"
    /\ web_alive
    /\ web_area' = size
    /\ UNCHANGED <<web_queue, web_raf, web_alive, web_pc, web_batch, web_event, web_wheel>>
    /\ UNCHANGED <<appVars, winVars, tokVars, xVars, loopVars, obsVars, inputVars>>

\* A mis-translation: the delta is passed on as it came, whatever the mode.
wheel_delta_raw(delta_mode, dx, dy) == <<dx, dy>>

\* `let wheel_delta = match delta_mode { .. }`; NoWheel stands for the arm
\* that warns and returns.
wheel_delta(delta_mode, dx, dy) ==
    CASE delta_mode = DOM_DELTA_PIXEL -> <<dx, dy>>
      [] delta_mode = DOM_DELTA_LINE -> <<35 * dx, 35 * dy>>
      [] delta_mode = DOM_DELTA_PAGE -> <<web_area[1] * dx, web_area[2] * dy>>
      [] OTHER -> NoWheel

\* The "wheel" listener of the canvas.
WebWheel(delta_mode, dx, dy) ==
    /\ web_pc = "idle"
    /\ web_alive
    /\ web_event' = [delta_mode |-> delta_mode, dx |-> dx, dy |-> dy]
    /\ web_wheel' = wheel_delta(delta_mode, dx, dy)
    /\ web_pc' = IF wheel_delta(delta_mode, dx, dy) = NoWheel
                 THEN "idle" ELSE "in_wheel"
    /\ UNCHANGED <<web_queue, web_area, web_raf, web_alive, web_batch>>
    /\ UNCHANGED <<appVars, winVars, tokVars, xVars, loopVars, obsVars, inputVars>>

NextWeb ==
    \/ \E kind \in {"Callback", "Token"} : WebAddIdle(kind)
    \/ WebFrame \/ WebIdleStep \/ WebReturn \/ WebDrop
    \/ \E size \in WebSizes : WebResize(size)
    \/ \E delta_mode \in DeltaModes, dx \in Deltas, dy \in Deltas :
          WebWheel(delta_mode, dx, dy)

SpecWeb == Init /\ [][NextWeb]_vars

(***************************************************************************)
(* The application state lock under the text handlers: main builds its     *)
(* windows and runs the loop; key and focus events are dispatched with the *)
(* state borrowed for writing, and the handler may quit or build a window. *)
(***************************************************************************)
NextLock ==
    \/ Run
    \/ NextText
    \/ Quit
    \/ \E w \in Win : Build(w)

SpecLock == InitApp /\ [][NextLock]_vars

(***************************************************************************)
(* The wake pipe with its capacity: IdleHandle::wake writes one byte and   *)
(* tries again for as long as the write answers EAGAIN.  The pipe is only  *)
(* drained by the loop thread, in the idle pass.                           *)
(***************************************************************************)
\* wake() on a full pipe, on the loop thread: `Err(EAGAIN) => {}` and the
\* write is tried again, for ever, since the drain is later in this thread.
wake_full == "wake_spin"

\* IdleHandle::add_idle on the loop thread when the pipe is full: the push,
\* then wake().
AddIdleFull(w) ==
    /\ InHandler
    /\ Len(idle_queue[w]) < MaxIdle
    /\ pipe = MaxPipe
    /\ \E item \in {Redraw} \cup {[kind |-> "Token", id |-> i] : i \in {nextIdle} \cap (1 .. MaxIdle)} :
          /\ idle_queue' = [idle_queue EXCEPT ![w] = Append(@, item)]
          /\ nextIdle' = IF item = Redraw THEN nextIdle ELSE nextIdle + 1
    /\ pc' = wake_full
    /\ UNCHANGED <<cur, call, todo, batch, needs_redraw, now, next_timeout,
                   last_idle_time, clock>>
    /\ UNCHANGED <<nextToken, pipe, thrWake>>
    /\ UNCHANGED <<destroyed, handlerLock, depth, invalid, timer_queue>>
    /\ UNCHANGED <<appVars, xVars, obsVars>>
    /\ UNCHANGED <<inputVars, webVars>>

NextPipe ==
    \/ NextIdle
    \/ AddIdleFull(cur)

SpecPipe == Init /\ [][NextPipe]_vars

(***************************************************************************)
(* Quit with a server that carries out the requests of the connection in   *)
(* the order they were sent.  finalize_quit is only called with an empty   *)
(* registry, so a window that is registered while the destroy of the       *)
(* bookkeeping window is pending was created after that request: the       *)
(* server reports nothing about it before that DestroyNotify.              *)
(***************************************************************************)
InOrder(w) == w \in windows => AppWin \notin xPending

XServerInOrder ==
    \/ \E type \in NativeKinds, w \in Win : InOrder(w) /\ XEnqueue(type, w)
    \/ \E w \in Win : InOrder(w) /\ XConfirmDestroy(w)
    \/ XConfirmDestroy(AppWin)

NextFinal ==
    \/ Run
    \/ EventLoop
    \/ \E w \in Win : Build(w)
    \/ \E w \in Win : Close(w)
    \/ Quit
    \/ XServerInOrder

SpecFinal == InitApp /\ [][NextFinal]_vars

(***************************************************************************)
(* The invalid region under the server's ConfigureNotify and Expose        *)
(* events, next to the invalidations the handler asks for.                 *)
(***************************************************************************)
\* The rectangle of an exposure, and the window's rectangle after a resize.
ExposeRect == Rect(0, 0, 2, 2)
ResizedRect == Rect(0, 0, 2 * (WinW + 1), 2 * WinH)

\* The server reports a new geometry; new_size says whether the size differs
\* from the one the window has recorded (`size != self.area.get().size_px()`).
XConfigure(w, new_size) ==
    /\ pc \notin Stopped
    /\ Len(xevents) < MaxEvents
    /\ xevents' = Append(xevents, [type |-> "ConfigureNotify", id |-> w,
                                   new_size |-> new_size, count |-> 0])
    /\ UNCHANGED <<xPending, lastReq>>
    /\ UNCHANGED <<appVars, winVars, tokVars, loopVars, obsVars>>
    /\ UNCHANGED <<inputVars, webVars>>

\* The server reports an exposure as a run of n + 1 Expose events whose
\* count field goes down to 0.
XExpose(w, n) ==
    /\ pc \notin Stopped
    /\ Len(xevents) + n + 1 <= MaxEvents
    /\ xevents' = xevents \o
          [i \in 1 .. (n + 1) |-> [type |-> "Expose", id |-> w,
                                   new_size |-> FALSE, count |-> n + 1 - i]]
    /\ UNCHANGED <<xPending, lastReq>>
    /\ UNCHANGED <<appVars, winVars, tokVars, loopVars, obsVars>>
    /\ UNCHANGED <<inputVars, webVars>>

\* The Expose and ConfigureNotify arms of handle_event: handle_expose adds
\* the rectangle and, for the last event of the run, requests a frame;
\* size_changed, for a new size, adds the window's rectangle and calls
\* handler.size, then handler.scale.
DispatchPaintEvent ==
    /\ pc = "drain"
    /\ xevents # <<>>
    /\ Head(xevents).type \in PaintKinds
    /\ LET ev == Head(xevents) IN
       /\ xevents' = Tail(xevents)
       /\ IF ~window(ev.id)
          THEN /\ pc' = ErrArm
               /\ evOutcome' = "logged"
               /\ UNCHANGED <<cur, call, handlerLock, depth, reentry, invalid,
                              invLog, idle_queue, pipe>>
          ELSE IF ev.type = "Expose"
          THEN /\ invalid' = add_invalid_rect(ev.id, ExposeRect)
               /\ invLog' = [invLog EXCEPT ![ev.id] = @ \cup {ExposeRect}]
               /\ IF ev.count = 0
                  THEN add_idle(ev.id, Redraw)
                  ELSE UNCHANGED <<idle_queue, pipe>>
               /\ pc' = "drain"
               /\ evOutcome' = "ignored"
               /\ UNCHANGED <<cur, call, handlerLock, depth, reentry>>
          ELSE IF ~ev.new_size
          THEN /\ pc' = "drain"
               /\ evOutcome' = "ignored"
               /\ UNCHANGED <<cur, call, handlerLock, depth, reentry, invalid,
                              invLog, idle_queue, pipe>>
          ELSE /\ invalid' = add_invalid_rect(ev.id, ResizedRect)
               /\ invLog' = [invLog EXCEPT ![ev.id] = @ \cup {ResizedRect}]
               /\ EnterHandler(ev.id, "size", "in_event")
               /\ evOutcome' = "handler"
               /\ UNCHANGED <<idle_queue, pipe>>
    /\ UNCHANGED <<todo, batch, needs_redraw, now, next_timeout, last_idle_time,
                   clock>>
    /\ UNCHANGED <<destroyed, timer_queue>>
    /\ UNCHANGED <<appVars, nextToken, nextIdle, thrWake, xPending, lastReq, fired,
                   swapped, dueAtCall, undrained, cycleMax, paintArg>>
    /\ UNCHANGED <<inputVars, webVars>>

\* handler.size returns; size_changed goes on with with_handler(scale).
ReturnSize ==
    /\ pc = "in_event"
    /\ call = "size"
    /\ call' = "scale"
    /\ UNCHANGED <<pc, cur, todo, batch, needs_redraw, now, next_timeout,
                   last_idle_time, clock>>
    /\ UNCHANGED <<appVars, winVars, tokVars, xVars, obsVars>>
    /\ UNCHANGED <<inputVars, webVars>>

NextResize ==
    \/ LoopTop \/ PollReturn \/ DrainDone \/ TimerPassSkip \/ Tick
    \/ IdlePassBegin \/ IdlePassEnd
    \/ \E w \in Win : RunIdleBegin(w)
    \/ IdleStep \/ RunIdleEnd
    \/ RenderBegin \/ ReturnPreparePaint \/ ReturnPaint
    \/ \E w \in Win, new_size \in BOOLEAN : XConfigure(w, new_size)
    \/ \E w \in Win, n \in 0 .. 1 : XExpose(w, n)
    \/ DispatchPaintEvent
    \/ ReturnSize
    \/ call = "scale" /\ ReturnEvent
    \/ Invalidate(cur)

SpecResize == Init /\ [][NextResize]_vars

(***************************************************************************)
(* Touch contacts: the server reports a contact as a TouchBegin, any       *)
(* number of TouchUpdates and a TouchEnd, all with the same source device  *)
(* and the same detail (the touch id).                                     *)
(***************************************************************************)
MaxTouch == 2

TouchIds == 1 .. MaxTouch

\* The one touch device.
TouchSource == 7

\* The server's touch event for contact detail of window w.  A TouchBegin
\* opens a contact; TouchUpdate and TouchEnd follow an event of the same
\* contact that is still queued.
XTouch(type, w, detail, emulating) ==
    /\ pc \notin Stopped
    /\ Len(xevents) < MaxEvents
    /\ IF type = "XinputTouchBegin"
       THEN xevents = <<>>
       ELSE /\ xevents # <<>>
            /\ xevents[Len(xevents)].type \in {"XinputTouchBegin", "XinputTouchUpdate"}
            /\ xevents[Len(xevents)].id = w
            /\ xevents[Len(xevents)].detail = detail
            /\ xevents[Len(xevents)].emulating = emulating
    /\ xevents' = Append(xevents, [type |-> type, id |-> w, detail |-> detail,
                                   sourceid |-> TouchSource, emulating |-> emulating])
    /\ UNCHANGED <<xPending, lastReq>>
    /\ UNCHANGED <<appVars, winVars, tokVars, loopVars, obsVars>>
    /\ UNCHANGED <<inputVars, webVars>>

\* Window::pointer_touch_event.  pointer_id is sourceid | detail << 32, kept
\* as the pair of its two halves.
pointer_touch_event(ev) ==
    [button |-> IF ev.emulating THEN "Primary" ELSE "None",
     wheel_delta |-> <<0, 0>>,
     pointer_id |-> <<ev.sourceid, ev.detail>>]

\* The handler method of handle_touch_begin, handle_touch_update and
\* handle_touch_end.
TouchMethod(type) ==
    CASE type = "XinputTouchBegin" -> "pointer_down"
      [] type = "XinputTouchUpdate" -> "pointer_move"
      [] type = "XinputTouchEnd" -> "pointer_move"

\* The XinputTouchBegin, XinputTouchUpdate and XinputTouchEnd arms of
\* handle_event.
DispatchTouch ==
    /\ pc = "drain"
    /\ xevents # <<>>
    /\ Head(xevents).type \in TouchKinds
    /\ LET ev == Head(xevents) IN
       /\ xevents' = Tail(xevents)
       /\ IF ~window(ev.id)
          THEN /\ pc' = ErrArm
               /\ evOutcome' = "logged"
               /\ UNCHANGED <<cur, call, handlerLock, depth, reentry, pointer_ev>>
          ELSE /\ pointer_ev' = pointer_touch_event(ev)
               /\ EnterHandler(ev.id, TouchMethod(ev.type), "in_event")
               /\ evOutcome' = "handler"
    /\ UNCHANGED <<todo, batch, needs_redraw, now, next_timeout, last_idle_time,
                   clock>>
    /\ UNCHANGED <<destroyed, invalid, timer_queue, idle_queue>>
    /\ UNCHANGED <<appVars, tokVars, xPending, lastReq, fired, swapped, dueAtCall,
                   undrained, cycleMax, paintArg, invLog>>
    /\ UNCHANGED <<active_text_field, next_text_field, need_to_reset_compose,
                   next_field, reset_compose, composing, inputLock, nextField, ret,
                   lockCall, webVars>>

NextTouch ==
    \/ LoopTop \/ PollReturn \/ DrainDone \/ TimerPassSkip \/ IdlePassSkip
    \/ \E type \in TouchKinds, w \in Win, detail \in TouchIds, emulating \in BOOLEAN :
          XTouch(type, w, detail, emulating)
    \/ DispatchTouch
    \/ ReturnEvent

SpecTouch == Init /\ [][NextTouch]_vars

IsPrefix(q, r) == Len(q) <= Len(r) /\ SubSeq(r, 1, Len(q)) = q

\* C21: a window that has left the registry gets no handler call: the guard
\* of its handler is never taken again, its pending timers and idle items
\* stay where they are, unfired, and the passes that skip them stop the loop
\* with no error.
C21_RemovedWindowGetsNoCalls ==
    [][/\ \A w \in Win \ windows :
            /\ ~handlerLock'[w]
            /\ timer_queue[w] \subseteq timer_queue'[w]
            /\ IsPrefix(idle_queue[w], idle_queue'[w])
       /\ InHandler' => cur' \in windows'
       /\ pc \in {"timers", "run_timers", "idle", "run_idle"} => pc' \notin Stopped]_vars

\* A timer pass and an idle pass have gone by a removed window whose timer
\* was due and whose idle queue was not empty.
C21_Witness ==
    /\ pc = "idle"
    /\ todo = {}
    /\ \E w \in Win \ windows :
          /\ idle_queue[w] # <<>>
          /\ \E t \in timer_queue[w] : t.deadline < now
    /\ \E i \in 1 .. Len(fired) : fired[i].kind = "Token"


\* The value C22 names as the default of a method, "()" where it names none.
ClaimedDefault(op) ==
    CASE op = "get_position" -> "Point(0,0)"
      [] op = "get_size" -> "Size::ZERO"
      [] op = "get_scale" -> "Ok(Scale(1,1))"
      [] op = "request_timer" -> "TimerToken::INVALID"
      [] op = "get_idle_handle" -> "None"
      [] op \in {"content_insets", "get_window_state", "make_cursor",
                 "open_file", "save_as"} -> DroppedRet(op)
      [] OTHER -> "()"

\* C22 (as stated): every WindowHandle method called on a dropped handle
\* changes no state at all and returns the method's default value.
C22_DroppedOpIsNoOp ==
    [][ret' # ret =>
         /\ ret'.val = ClaimedDefault(ret'.op)
         /\ ret'.token = 0
         /\ UNCHANGED <<appVars, winVars, tokVars, xVars, loopVars, obsVars>>
         /\ UNCHANGED <<active_text_field, next_text_field, need_to_reset_compose,
                        next_field, reset_compose, composing, inputLock,
                        nextField, lockCall, pointer_ev, webVars>>]_vars

\* C22 (amended): every WindowHandle method called on a dropped handle issues
\* no platform request, calls no handler, touches no window, timer or idle
\* state and returns its default value -- except add_text_field, which never
\* tests the window and hands out a fresh text-field token, advancing the
\* token counter and nothing else.
C22_DroppedOpIsNoOpExceptAddTextField ==
    [][ret' # ret =>
         /\ UNCHANGED <<appVars, winVars, tokVars, xVars, loopVars, obsVars>>
         /\ UNCHANGED <<active_text_field, next_text_field, need_to_reset_compose,
                        next_field, reset_compose, composing, inputLock,
                        lockCall, pointer_ev, webVars>>
         /\ IF ret'.op = "add_text_field"
            THEN ret'.token = nextField /\ nextField' = nextField + 1
            ELSE /\ ret'.val = ClaimedDefault(ret'.op)
                 /\ ret'.token = 0
                 /\ nextField' = nextField]_vars

\* A live handle has issued a platform request, the dropped handle has handed
\* out a text-field token, and request_timer on it has just returned INVALID.
C22_Witness ==
    /\ ret.op = "request_timer" /\ ret.val = "TimerToken::INVALID"
    /\ nextField > 1
    /\ lastReq.op \in WinOps


IsKeyCall == call \in {"key_down", "key_up"}

\* C23 (as stated): after every key event delivered to the handler, key down
\* handled or not and key up, active_text_field equals next_text_field.
C23_ActiveIsNextAfterKeyEvent ==
    [][IsKeyCall /\ call' = "none" =>
         active_text_field'[cur] = next_text_field'[cur]]_vars

\* C23 (amended): a key down that the handler reports as handled leaves the
\* text fields and the composition as they are.  On a key up and on a key down
\* not reported as handled, the requested field is read when the handler
\* method returns; if it differs from the active field the composition is
\* cancelled and the requested field is made active, if a reset was flagged
\* the composition is cancelled, and when the event is over
\* active_text_field equals next_text_field (unless the client made a
\* text-field call from within acquire_input_lock .. release_input_lock).
C23_ResetUnlessKeyDownHandled ==
    [][/\ IsKeyCall /\ pc \in {"in_key_down", "in_key_up"} /\ pc' # pc =>
            IF pc' = "drain"
            THEN /\ call = "key_down"
                 /\ UNCHANGED <<active_text_field, next_text_field, composing>>
            ELSE /\ next_field' = next_text_field[cur]
                 /\ (next_field' # active_text_field[cur] => ~composing')
       /\ IsKeyCall /\ pc' = "reset" /\ pc # "reset" =>
            active_text_field'[cur] = next_field'
       /\ IsKeyCall /\ pc' = "reset_done" /\ pc # "reset_done" =>
            (need_to_reset_compose[cur] /\ ~lockCall => ~composing')
       /\ IsKeyCall /\ call' = "none" /\ pc # "in_key_down" =>
            active_text_field'[cur] = next_text_field'[cur] \/ lockCall]_vars

\* A key event has moved the active field from one text field to another
\* while a composition was in progress, and is over.
C23_Witness ==
    /\ pc = "drain" /\ evOutcome = "handler"
    /\ next_field # None /\ ~composing /\ ~lockCall
    /\ \E w \in Win :
         /\ active_text_field[w] = next_field
         /\ next_text_field[w] = next_field
         /\ need_to_reset_compose[w]


\* C29: every acquire_input_lock(field) is followed by release_input_lock of
\* the same field before any other acquire and before the handler activation
\* ends: at most one input lock is held, and none outside the span from an
\* acquire to its release (so none between events).
C29_InputLockScoped ==
    [][/\ Len(inputLock') <= 1
       /\ ~InLock' => inputLock' = <<>>
       /\ InLock' => inputLock' # <<>>
       /\ inputLock # <<>> => inputLock' \in {inputLock, <<>>}
       /\ inputLock' # <<>> => handlerLock'[cur']]_vars

\* The lock of the requested field is held to clear its composition range,
\* after a reset was flagged on a field with a composition in progress.
C29_Witness ==
    /\ pc = "in_lock_next"
    /\ inputLock = <<next_field>>
    /\ active_text_field[cur] = next_field


TimerQueued(tok) == \E w \in Win : \E t \in timer_queue[w] : t.token = tok

TimerDelivered(tok) ==
    pc = "in_timer" /\ fired # <<>> /\ fired[Len(fired)].token = tok

\* C24: with the window registered and the loop running, every token that
\* request_timer returned (from an event, timer or idle callback) is
\* delivered through timer(token): eventually, not before its deadline, and
\* once -- it leaves the queue when it is delivered and no later request
\* returns the same token.
C24_TimerDeliveredOnceNotEarly ==
    /\ \A tok \in 1 .. MaxTimers : TimerQueued(tok) ~> TimerDelivered(tok)
    /\ [][/\ FiresTimer =>
               LET t == fired'[Len(fired')] IN
               /\ t \in timer_queue[cur']
               /\ t.deadline <= now /\ now <= clock
               /\ \A w \in Win : \A u \in timer_queue'[w] : u.token # t.token
          /\ \A w \in Win : \A t \in timer_queue'[w] \ timer_queue[w] :
               /\ t.token = nextToken /\ nextToken' = nextToken + 1
               /\ \A v \in Win : \A u \in timer_queue[v] : u.token < nextToken]_vars

\* Timers requested from an event, a timer and an idle callback: the third
\* token is being delivered, at or after its deadline.
C24_Witness ==
    /\ TimerDelivered(MaxTimers)
    /\ nextIdle > 1
    /\ clock > 0


\* C28: an idle pass starts only when now >= time of the last idle pass + the
\* refresh interval, so consecutive passes are at least one interval apart;
\* the pass visits every registered window, and a window's queue is emptied
\* only by handing all of it to run_idle, which goes through the whole batch.
C28_IdlePassRateLimited ==
    [][/\ pc = "idle_check" /\ pc' = "idle" =>
            /\ now >= last_idle_time + IdleInterval
            /\ last_idle_time' = now
            /\ todo' = windows
       /\ last_idle_time' # last_idle_time =>
            /\ pc = "idle_check"
            /\ last_idle_time' >= last_idle_time + IdleInterval
       /\ pc = "idle" /\ pc' \notin {"idle", "run_idle"} => todo = {}
       /\ \A w \in Win :
            ~IsPrefix(idle_queue[w], idle_queue'[w]) =>
               /\ pc = "idle" /\ pc' = "run_idle" /\ cur' = w /\ w \in todo
               /\ batch' = idle_queue[w]
               /\ idle_queue'[w] = <<>>
       /\ pc = "run_idle" /\ batch' # batch => batch' = Tail(batch)
       /\ pc = "run_idle" /\ pc' \notin {"run_idle", "in_idle"} => batch = <<>>]_vars

\* An idle pass two intervals after the loop started is running the items of
\* one window while the other window's items wait for their turn in it.
C28_Witness ==
    /\ pc = "run_idle" /\ batch # <<>>
    /\ last_idle_time = now /\ now >= 2 * IdleInterval
    /\ \E w \in todo : idle_queue[w] # <<>>


IdleQueued(id) ==
    \E w \in windows : \E i \in 1 .. Len(idle_queue[w]) : idle_queue[w][i].id = id

IdleRunning(id) ==
    pc = "in_idle" /\ fired # <<>> /\ fired[Len(fired)].id = id

IsButtonDispatch ==
    /\ pc = "drain" /\ xevents # <<>> /\ xevents' = Tail(xevents)
    /\ Head(xevents).type \in ButtonKinds
    /\ window(Head(xevents).id)

\* C26: scrolling is a wheel delta, never a button.  A button press with
\* detail 4..7 makes one wheel call with button None and +-120 on one axis
\* (4/5 vertical, horizontal with Shift; 6/7 horizontal) and no pointer_down;
\* the release with detail 4..7 makes no handler call; pointer_button maps
\* 4..7 to None.
C26_ScrollIsWheelNotButton ==
    [][IsButtonDispatch /\ Head(xevents).detail \in 4 .. 7 =>
         LET ev == Head(xevents) IN
         /\ pointer_button(ev.detail) = "None"
         /\ IF ev.type = "XinputButtonPress"
            THEN /\ pc' = "in_event" /\ call' = "wheel" /\ cur' = ev.id
                 /\ depth'[ev.id] = depth[ev.id] + 1
                 /\ pointer_ev'.button = "None"
                 /\ pointer_ev'.wheel_delta =
                      CASE ev.detail = 4 ->
                             IF ev.shift THEN <<0 - 120, 0>> ELSE <<0, 0 - 120>>
                        [] ev.detail = 5 ->
                             IF ev.shift THEN <<120, 0>> ELSE <<0, 120>>
                        [] ev.detail = 6 -> <<0 - 120, 0>>
                        [] ev.detail = 7 -> <<120, 0>>
            ELSE /\ pc' = "drain" /\ call' = "none"
                 /\ UNCHANGED <<handlerLock, depth, pointer_ev>>]_vars

\* The handler is in wheel() for a press of button 5 with Shift held; the
\* release of button 5 is waiting to be dispatched.
C26_Witness ==
    /\ pc = "in_event" /\ call = "wheel"
    /\ pointer_ev = [button |-> "None", wheel_delta |-> <<120, 0>>]
    /\ xevents # <<>> /\ Head(xevents).type = "XinputButtonRelease"
    /\ Head(xevents).detail = 5


\* C25: in the web backend an add schedules a process_idle_queue
\* animation-frame callback exactly when it takes the queue from empty to
\* non-empty (window alive), so N adds before the queue is processed schedule
\* one callback; with the window alive, a non-empty queue has exactly one
\* callback pending, and never more than one is pending.
C25_OneFramePerNonEmptyQueue ==
    [][/\ web_raf' = web_raf + 1 <=>
            web_queue = <<>> /\ web_queue' # <<>> /\ web_alive
       /\ web_raf' <= 1
       /\ web_alive' /\ web_queue' # <<>> => web_raf' = 1]_vars

\* Two adds were made before the queue was processed; one callback is pending.
C25_Witness ==
    /\ Len(web_queue) = MaxIdle
    /\ web_raf = 1
    /\ web_alive

\* C27: the web wheel listener hands the handler the delta in pixels: pixel
\* mode (dx, dy), line mode (35 dx, 35 dy), page mode (width_dp dx,
\* height_dp dy) with the current size of the window; an unknown mode makes
\* no handler call.
C27_WheelDeltaInPixels ==
    [][web_pc = "idle" /\ (web_pc' = "in_wheel" \/ web_event' # web_event) =>
         LET dx == web_event'.dx
             dy == web_event'.dy
             delta_mode == web_event'.delta_mode IN
         /\ web_wheel' =
              CASE delta_mode = 0 -> <<dx, dy>>
                [] delta_mode = 1 -> <<35 * dx, 35 * dy>>
                [] delta_mode = 2 -> <<web_area[1] * dx, web_area[2] * dy>>
                [] OTHER -> <<>>
         /\ web_pc' = IF delta_mode \in 0 .. 2 THEN "in_wheel" ELSE "idle"]_vars

\* The handler is in wheel() with the delta of a page-mode event after a resize.
C27_Witness ==
    /\ web_pc = "in_wheel"
    /\ web_area = <<WinW + 1, WinH + 1>>
    /\ web_event = [delta_mode |-> 2, dx |-> 1, dy |-> 0 - 1]
    /\ web_wheel = <<WinW + 1, 0 - (WinH + 1)>>

\* C31 (as stated): the loop thread never blocks for ever (or panics) on the
\* application state lock, whatever handler method quit() or build() is
\* called from.
C31_QuitAndBuildNeverBlock ==
    pc \notin {"deadlock", "panic"}

\* C32 (as stated): add_idle always returns: the wake write of an add made
\* on the loop thread from inside a handler method terminates, whatever the
\* number of bytes already in the pipe.
C32_AddIdleReturns ==
    pc # "wake_spin"

\* C33 (as stated): once finalize_quit has closed the idle pipe the loop
\* neither polls nor drains the closed descriptor, and it does not leave
\* run_inner with the error of a failed drain.
C33_ClosedPipeNeverUsed ==
    [][finalized > 0 =>
         /\ ~(pc = "top" /\ pc' = "wait")
         /\ ~(pc = "idle_check" /\ pc' \in {"idle", "abort_idle_pipe"})]_vars

\* C34: finalize_quit runs at most once per application: the bookkeeping
\* window is destroyed and the idle pipe closed at most once, whatever quit()
\* calls, window creations and destroy confirmations there are.
C34_FinalizeAtMostOnce ==
    /\ [](finalized <= 1)
    /\ [][finalized > 0 => finalized' = finalized]_vars
    /\ [][(AppWin \in xPending' /\ AppWin \notin xPending) =>
            (finalized = 0 /\ finalized' = 1 /\ windows' = {})]_vars

\* The loop has exited on the one finalization, which was followed by the
\* creation of a window.
C34_Witness ==
    /\ finalized = 1
    /\ pc = "exited"
    /\ windows # {}

\* A redraw of window w is on its way: a Redraw marker is queued, or run_idle
\* has taken it and has not rendered yet, or the rest of a run of Expose
\* events is still to be dispatched.
RedrawPending(w) ==
    \/ HasRedraw(idle_queue[w])
    \/ cur = w /\ pc \in {"run_idle", "render"}
    \/ \E i \in 1 .. Len(xevents) : xevents[i].type = "Expose" /\ xevents[i].id = w

\* C35 (as stated): while no handler call is in progress, a registered,
\* non-destroyed window whose invalid region is not empty has a redraw
\* pending, also when the region grew by a resize or an exposure.
C35_InvalidRegionHasRedrawPending ==
    (\A v \in Win : ~handlerLock[v]) =>
        \A w \in windows : ~destroyed[w] /\ invalid[w] # {} => RedrawPending(w)

\* C36: the destroy_window request of a window is sent at most once, at the
\* step that sets its destroyed flag, however often close(), destroy() and
\* quit() are called; the flag is never cleared; a quit() call made when
\* quitting is already set sends nothing and finalizes nothing.
C36_DestroyRequestedOnce ==
    [][/\ \A w \in Win :
            /\ (w \in xPending' /\ w \notin xPending) =>
                  (~destroyed[w] /\ destroyed'[w])
            /\ (lastReq' # lastReq /\ lastReq'.op = "destroy_window"
                  /\ lastReq'.id = w) => (~destroyed[w] /\ destroyed'[w])
            /\ destroyed[w] => destroyed'[w]
       /\ (quitting /\ Quit) =>
            UNCHANGED <<destroyed, xPending, lastReq, finalized, windows>>]_vars

\* Inside a handler of a window whose destroy was requested by quit() and
\* has been confirmed by the server: close() and quit() may be called again.
C36_Witness ==
    /\ InHandler
    /\ quitting
    /\ destroyed[cur]
    /\ cur \notin xPending
    /\ cur \in windows

\* C37 (as stated): the key event that acts on need_to_reset_compose clears
\* it, so that a later key event cancels a composition again only after a
\* new remove_text_field or update_text_field.
C37_ResetFlagCleared ==
    [][(pc = "reset" /\ pc' # "reset" /\ reset_compose) =>
          ~need_to_reset_compose'[cur]]_vars

\* C38 (as stated): the TouchEnd of a contact is delivered as pointer_up
\* with the pointer id of the contact, the one its TouchBegin was delivered
\* with as pointer_down.
C38_TouchEndIsPointerUp ==
    [][(/\ pc = "drain" /\ pc' = "in_event"
        /\ Head(xevents).type = "XinputTouchEnd") =>
          (/\ call' = "pointer_up"
           /\ pointer_ev'.pointer_id = <<Head(xevents).sourceid, Head(xevents).detail>>)]_vars

\* C39: paint is never invoked for a window whose destroy has been
\* requested: the handler enters paint only with the flag clear, and a
\* render whose prepare_paint returns with the flag set (the handler may have
\* set it in that very prepare_paint) returns without paint and without
\* taking the region.
C39_NoPaintAfterDestroy ==
    [][/\ (call # "paint" /\ call' = "paint") => ~destroyed[cur'] /\ ~destroyed'[cur']
       /\ (pc = "in_prepare_paint" /\ pc' # pc /\ destroyed[cur]) =>
             (pc' = "idle" /\ call' = "none" /\ UNCHANGED <<invalid, paintArg>>)]_vars

\* A render of a destroyed window has returned: its region was not taken and
\* nothing was painted.
C39_Witness ==
    /\ pc = "idle"
    /\ fired # <<>>
    /\ fired[Len(fired)] = Redraw
    /\ paintArg = {}
    /\ \E w \in Win : destroyed[w] /\ invalid[w] # {} /\ w \notin todo

\* C40 (as stated): an idle callback run by process_idle_queue may add idle
\* work through an IdleHandle of its window: the add neither blocks nor
\* panics on the lock of the idle queue.
C40_AddFromIdleCallback ==
    web_pc \notin WebStopped

====
